---- MODULE Spec2Model ----
(***************************************************************************)
(* Adaptive Lighting Pro: the room controllers (AdaptiveLightingController)*)
(* of custom_components/adaptive_lighting_pro/__init__.py, their shared    *)
(* sync-group registry, the manual-override window and the light applier.  *)
(*                                                                         *)
(* Time is counted in minutes.  The clock moves in steps of TimeStep       *)
(* minutes so that the day progress computed by the engine stays a         *)
(* fraction with a small denominator (the engine is computed exactly, in   *)
(* integers).  None stands for Python's None.                              *)
(***************************************************************************)
EXTENDS Integers, Sequences, FiniteSets, Bags, TLC

\* ------------------------------------------------------------------ bounds
MaxSteps == 2          \* how many times the clock advances
MaxPending == 1        \* tasks created by callbacks and not yet run

\* ------------------------------------------------------- program constants
None == -999999
DAY == 1440                         \* timedelta(days=1), in minutes
DEFAULT_MIN_BRIGHTNESS == 20
DEFAULT_MAX_BRIGHTNESS == 100
DEFAULT_MIN_COLOR_TEMP == 2200
DEFAULT_MAX_COLOR_TEMP == 5500
DEFAULT_TRANSITION == 3
DEFAULT_SLEEP_BRIGHTNESS == 5
DEFAULT_SLEEP_COLOR_TEMP == 2000
DEFAULT_OVERRIDE_TIMEOUT == 30      \* data.get(CONF_OVERRIDE_TIMEOUT, 30)
SWITCH_OVERRIDE_MINUTES == 30       \* ManualOverrideSwitch.async_turn_on
NEUTRAL_MIREDS == 370
BRIGHTNESS_TOLERANCE == 5
COLOR_TEMP_TOLERANCE == 10
MODE_CIRCADIAN == "circadian"
MODE_SOLAR == "solar"
MODE_TIME_BASED == "time_based"
STATE_ON == "on"

\* ------------------------------------------------------------ environment
TimeStep == DAY \div 8              \* minutes per clock step (3 hours)
StartTime == DAY \div 2             \* the clock starts at 12:00 of day 0

Rooms == {"A", "B", "C"}            \* one controller object per config entry
Groups == {"g"}
AllLights == {"a1", "a2", "b1", "c1"}

\* entry.data: CONF_LIGHTS
Lights(r) == IF r = "A" THEN <<"a1", "a2">> ELSE IF r = "B" THEN <<"b1">> ELSE <<"c1">>
\* entry.data: CONF_ENABLE_ENTITY ("" = not configured)
EnableEntity(r) == IF r = "A" THEN "input_boolean.a" ELSE IF r = "B" THEN "input_boolean.b" ELSE ""
\* entry.data: CONF_BRIGHTNESS_MODE / CONF_COLOR_TEMP_MODE
BrightnessMode(r) == IF r = "A" THEN MODE_CIRCADIAN ELSE IF r = "B" THEN MODE_SOLAR ELSE MODE_TIME_BASED
ColorTempMode(r) == IF r = "A" THEN MODE_CIRCADIAN ELSE IF r = "B" THEN MODE_TIME_BASED ELSE MODE_SOLAR
MinBrightness(r) == DEFAULT_MIN_BRIGHTNESS
MaxBrightness(r) == DEFAULT_MAX_BRIGHTNESS
MinColorTemp(r) == DEFAULT_MIN_COLOR_TEMP
MaxColorTemp(r) == DEFAULT_MAX_COLOR_TEMP
SleepBrightness(r) == DEFAULT_SLEEP_BRIGHTNESS
SleepColorTemp(r) == DEFAULT_SLEEP_COLOR_TEMP
Transition(r) == DEFAULT_TRANSITION
\* entry.data: CONF_SUNRISE_OFFSET / CONF_SUNSET_OFFSET, minutes
SunriseOffset(r) == IF r = "C" THEN 60 ELSE 0
SunsetOffset(r) == IF r = "C" THEN -60 ELSE 0
OverrideTimeout(r) == DEFAULT_OVERRIDE_TIMEOUT
InstantTransition(r) == TRUE

\* entry.data: CONF_TRIGGER_ENTITIES
TriggerEntities(r) == IF r = "A" THEN <<"binary_sensor.a">> ELSE <<>>
AllTriggers == {"binary_sensor.a"}
\* the states of a trigger entity that count as "turned on" (lines 371-372)
ACTIVE_STATES == {"on", "home", "playing", "open"}

\* state.attributes["supported_color_modes"] contains "color_temp"
SupportsCt(l) == l # "a2"

SeqToSet(s) == {s[i] : i \in DOMAIN s}
RoomOfLight(l) == CHOOSE r \in Rooms : l \in SeqToSet(Lights(r))
RoomOfTrigger(e) == CHOOSE r \in Rooms : e \in SeqToSet(TriggerEntities(r))

\* ----------------------------------------------------------------- state
VARIABLES
  now,                    \* dt_util.utcnow(), minutes
  lifecycle,              \* per room: "new", "running" (async_start done), "stopped",
                          \* "unloaded" (removed from hass.data)
  sync_group,             \* per room: self._sync_group ("" = none)
  detect_override,        \* per room: self._detect_override
  internal_enabled,       \* per room: self._internal_enabled
  entity_state,           \* hass.states of the enable entities: "none", "on", "off"
  sleep_mode,             \* per room: self._sleep_mode
  adapt_brightness,       \* per room: self._adapt_brightness
  adapt_color_temp,       \* per room: self._adapt_color_temp
  manual_override,        \* per room: self._manual_override
  manual_override_until,  \* per room: self._manual_override_until (None or minutes)
  current_brightness,     \* per room: self._current_brightness
  current_color_temp,     \* per room: self._current_color_temp
  telemetry,              \* per room: _circadian_factor (1/1000), _day_progress (%), _sun_elevation
  last_applied,           \* per room: self._last_applied, a dict light -> record
  sync_groups,            \* hass.data[DOMAIN][SYNC_GROUPS], a dict group -> record
  lights,                 \* hass.states of the lights
  trigger_state,          \* hass.states of the trigger entities ("none" = no state)
  sun_state,              \* hass.states of sun.sun, where a specification tracks it
  tasks,                  \* bag of tasks created with hass.async_create_task, not yet run
  ev,                     \* what the last handler did (observation only)
  joined_at,              \* per room: position in the history of joins, 0 = never (observation only)
  last_set                \* per room: <<T0, d>> of the last setOverride since the last clear (observation only)

cfgvars == <<sync_group, detect_override>>
roomvars == <<internal_enabled, sleep_mode, adapt_brightness, adapt_color_temp,
              manual_override, manual_override_until, current_brightness,
              current_color_temp, telemetry, last_applied>>
envvars == <<now, entity_state, lights, trigger_state, sun_state>>
vars == <<now, lifecycle, sync_group, detect_override, internal_enabled, entity_state, sleep_mode,
          adapt_brightness, adapt_color_temp, manual_override, manual_override_until,
          current_brightness, current_color_temp, telemetry, last_applied,
          sync_groups, lights, trigger_state, sun_state, tasks, ev, joined_at, last_set>>

\* ------------------------------------------------------- the engine (pure)
OrZero(x) == IF x = None THEN 0 ELSE x
Abs(x) == IF x < 0 THEN 0 - x ELSE x

RECURSIVE Gcd(_, _)
Gcd(a, b) == IF b = 0 THEN a ELSE Gcd(b, a % b)

\* a fraction num/den in lowest terms, den > 0
Frac(n, d) == LET g == Gcd(n, d) IN IF n = 0 THEN <<0, 1>> ELSE <<n \div g, d \div g>>
FracLeqHalf(f) == 2 * f[1] <= f[2]
\* 2*f and 2*(1-f)
FracTwice(f) == Frac(2 * f[1], f[2])
FracTwiceRest(f) == Frac(2 * (f[2] - f[1]), f[2])

\* the largest k in lo..hi with k*k*c <= rhs (lo satisfies it)
RECURSIVE SqrtSearch(_, _, _, _)
SqrtSearch(lo, hi, c, rhs) ==
  IF lo >= hi THEN lo
  ELSE LET mid == (lo + hi + 1) \div 2
       IN IF mid * mid * c <= rhs THEN SqrtSearch(mid, hi, c, rhs)
          ELSE SqrtSearch(lo, mid - 1, c, rhs)

\* int(D * (a/b) ** 1.5) for 0 <= a/b <= 1: the largest k with k^2 b^3 <= D^2 a^3
ScalePow15(D, f) ==
  SqrtSearch(0, D, f[2] * f[2] * f[2], D * D * f[1] * f[1] * f[1])
\* int(D * (a/b))
ScaleLinear(D, f) == (D * f[1]) \div f[2]

\* a factor is a fraction and the exponent applied to it: pow15 = TRUE means (a/b) ** 1.5
Factor(f, pow15) == [frac |-> f, pow15 |-> pow15]
ZeroFactor == Factor(<<0, 1>>, FALSE)
Scale(D, fac) == IF fac.pow15 THEN ScalePow15(D, fac.frac) ELSE ScaleLinear(D, fac.frac)

\* the sun.sun entity as read by one call: absent, or elevation + next_rising + next_setting
NoSun == [present |-> FALSE, elevation |-> 0, next_rising |-> None, next_setting |-> None]
SunState(e, rise, set) == [present |-> TRUE, elevation |-> e, next_rising |-> rise, next_setting |-> set]

\* _get_sun_data: <<sunrise, sunset, elevation>> for the clock value t
FallbackSunData(t) ==
  LET midnight == t - (t % DAY)
      hour == (t % DAY) \div 60
  IN <<midnight + 6 * 60, midnight + 18 * 60, IF 6 <= hour /\ hour <= 18 THEN 45 ELSE -10>>

\* variant: a next_rising that lies ahead is kept as it is
AdjustSunriseKept(sunrise, t) == sunrise

\* lines 533-534
AdjustSunrise(sunrise, t) ==
  IF sunrise # None /\ sunrise > t THEN sunrise - DAY ELSE sunrise

\* variant: the sunset is never moved back, only forward past the sunrise
AdjustSunsetForwardOnly(sunset, sunrise, elevation, t) ==
  IF sunset # None /\ sunrise # None /\ sunset < sunrise THEN sunset + DAY
  ELSE sunset

AdjustSunset(sunset, sunrise, elevation, t) ==
  IF sunset # None /\ sunset > t /\ elevation <= 0 THEN sunset - DAY
  ELSE IF sunset # None /\ sunrise # None /\ sunset < sunrise THEN sunset + DAY
  ELSE sunset

AddOffset(x, minutes) == IF x # None THEN x + minutes ELSE x

\* variant: the offsets are added before the timestamps are moved
get_sun_data_offsets_first(r, t, sun) ==
  IF ~sun.present THEN FallbackSunData(t)
  ELSE LET sunrise == AdjustSunrise(AddOffset(sun.next_rising, SunriseOffset(r)), t)
           sunset == AdjustSunset(AddOffset(sun.next_setting, SunsetOffset(r)), sunrise,
                                  sun.elevation, t)
       IN <<sunrise, sunset, sun.elevation>>

get_sun_data(r, t, sun) ==
  IF ~sun.present THEN FallbackSunData(t)
  ELSE LET sunrise == AdjustSunrise(sun.next_rising, t)
           sunset == AdjustSunset(sun.next_setting, sunrise, sun.elevation, t)
       IN <<AddOffset(sunrise, SunriseOffset(r)), AddOffset(sunset, SunsetOffset(r)), sun.elevation>>

\* day progress of the day branch, a fraction
DayProgress(sunrise, sunset, t) ==
  IF sunrise # None /\ sunset # None /\ sunrise < t /\ t < sunset
  THEN Frac(t - sunrise, sunset - sunrise)
  ELSE IF sunrise # None /\ t < sunrise THEN <<0, 1>>
  ELSE <<1, 1>>

Circadian(p) == Factor(IF FracLeqHalf(p) THEN FracTwice(p) ELSE FracTwiceRest(p), TRUE)
Solar(elevation) == IF elevation >= 60 THEN Factor(<<1, 1>>, FALSE) ELSE Factor(Frac(elevation, 60), FALSE)
TimeBased(p) == Factor(IF FracLeqHalf(p) THEN FracTwice(p) ELSE FracTwiceRest(p), FALSE)

\* variant: the night branch is taken only below civil twilight
calculate_factors_twilight(sunrise, sunset, elevation, t) ==
  IF elevation < -6
  THEN [circadian |-> ZeroFactor, solar |-> ZeroFactor, time_based |-> ZeroFactor,
        day_progress |-> IF sunrise # None /\ t < sunrise THEN <<0, 1>> ELSE <<1, 1>>]
  ELSE LET p == DayProgress(sunrise, sunset, t)
       IN [circadian |-> Circadian(p), solar |-> Solar(elevation),
           time_based |-> TimeBased(p), day_progress |-> p]

\* _calculate_factors
calculate_factors(sunrise, sunset, elevation, t) ==
  IF elevation <= 0
  THEN [circadian |-> ZeroFactor, solar |-> ZeroFactor, time_based |-> ZeroFactor,
        day_progress |-> IF sunrise # None /\ t < sunrise THEN <<0, 1>> ELSE <<1, 1>>]
  ELSE LET p == DayProgress(sunrise, sunset, t)
       IN [circadian |-> Circadian(p), solar |-> Solar(elevation),
           time_based |-> TimeBased(p), day_progress |-> p]

SelectFactor(mode, f) ==
  IF mode = MODE_SOLAR THEN f.solar
  ELSE IF mode = MODE_TIME_BASED THEN f.time_based
  ELSE f.circadian

\* the telemetry written by _calculate_values: factor in 1/1000, progress in %, elevation
Telemetry(f, elevation) ==
  [circadian_factor |-> Scale(1000, f.circadian),
   day_progress |-> ScaleLinear(100, f.day_progress),
   sun_elevation |-> elevation]
InitTelemetry == [circadian_factor |-> 0, day_progress |-> 0, sun_elevation |-> 0]

\* variant: sleep mode replaces the target only while the sun is down
calculate_values_sleep_at_night(r, t, sun, sleep) ==
  LET sd == get_sun_data(r, t, sun)
      f == calculate_factors(sd[1], sd[2], sd[3], t)
      b_factor == SelectFactor(BrightnessMode(r), f)
      ct_factor == SelectFactor(ColorTempMode(r), f)
  IN [telemetry |-> Telemetry(f, sd[3]),
      brightness |-> IF sleep /\ sd[3] <= 0 THEN SleepBrightness(r)
                     ELSE MinBrightness(r) + Scale(MaxBrightness(r) - MinBrightness(r), b_factor),
      color_temp |-> IF sleep /\ sd[3] <= 0 THEN SleepColorTemp(r)
                     ELSE MinColorTemp(r) + Scale(MaxColorTemp(r) - MinColorTemp(r), ct_factor)]

\* _calculate_values: the target and the telemetry it writes
calculate_values(r, t, sun, sleep) ==
  LET sd == get_sun_data(r, t, sun)
      f == calculate_factors(sd[1], sd[2], sd[3], t)
      b_factor == SelectFactor(BrightnessMode(r), f)
      ct_factor == SelectFactor(ColorTempMode(r), f)
  IN [telemetry |-> Telemetry(f, sd[3]),
      brightness |-> IF sleep THEN SleepBrightness(r)
                     ELSE MinBrightness(r) + Scale(MaxBrightness(r) - MinBrightness(r), b_factor),
      color_temp |-> IF sleep THEN SleepColorTemp(r)
                     ELSE MinColorTemp(r) + Scale(MaxColorTemp(r) - MinColorTemp(r), ct_factor)]

\* ---------------------------------------------------- controller: helpers
\* the enabled property
enabled(r) ==
  IF EnableEntity(r) # "" /\ entity_state[EnableEntity(r)] = "off" THEN FALSE
  ELSE internal_enabled[r]

\* variant: the window already counts as expired at its expiry time
OverrideExpiredAtExpiry(armed, until, t) == armed /\ until # None /\ t >= until

\* the manual_override property: the value it returns and the window it leaves behind
OverrideExpired(armed, until, t) == armed /\ until # None /\ t > until

\* variant: the property returns the stored flag and never looks at the expiry time
manual_override_read_sticky(armed, until, t) ==
  [value |-> armed, armed |-> armed, until |-> until]

manual_override_read(armed, until, t) ==
  IF OverrideExpired(armed, until, t)
  THEN [value |-> FALSE, armed |-> FALSE, until |-> None]
  ELSE [value |-> armed, armed |-> armed, until |-> until]

\* dict helpers
DictSet(d, k, v) == [x \in (DOMAIN d) \cup {k} |-> IF x = k THEN v ELSE d[x]]
EmptyDict == [x \in {} |-> 0]

\* variant: the brightness is rounded to the nearest integer
Brightness255Rounded(pct) == (2 * pct * 255 + 100) \div 200

\* percentage -> 0..255 and Kelvin -> mireds, as async_apply_lighting converts them
Brightness255(pct) == (pct * 255) \div 100
Mireds(kelvin) == IF kelvin > 0 THEN 1000000 \div kelvin ELSE NEUTRAL_MIREDS

\* variant: the color-temperature field does not depend on what the light supports
ServiceDataAnyLight(l, transition, b255, mireds, adapt_b, adapt_ct) ==
  [entity_id |-> l,
   transition |-> transition,
   brightness |-> IF adapt_b THEN b255 ELSE None,
   color_temp |-> IF adapt_ct THEN mireds ELSE None]

\* the service_data of one light (None = field not included)
ServiceData(l, transition, b255, mireds, adapt_b, adapt_ct) ==
  [entity_id |-> l,
   transition |-> transition,
   brightness |-> IF adapt_b THEN b255 ELSE None,
   color_temp |-> IF adapt_ct /\ SupportsCt(l) THEN mireds ELSE None]
\* len(service_data) <= 2
NothingToChange(sd) == sd.brightness = None /\ sd.color_temp = None

\* the record stored in _last_applied for a light
LastAppliedRecord(b255, mireds, adapt_b, adapt_ct) ==
  [brightness |-> IF adapt_b THEN b255 ELSE None,
   color_temp |-> IF adapt_ct THEN mireds ELSE None]

\* variant: only the lights without any state are skipped
AppliedLightsKnown(ids) ==
  {l \in ids : lights[l].state # "none"}

\* the lights one call of async_apply_lighting gets past its "continue"s
AppliedLights(ids) ==
  {l \in ids : lights[l].state = STATE_ON}

\* variant: the first service call that raises ends the loop over the lights
apply_lighting_aborting(r, cb, cct, ids, instant, fails) ==
  LET targets == IF ids # {} THEN ids ELSE SeqToSet(Lights(r))
      b255 == Brightness255(cb)
      mireds == Mireds(cct)
      transition == IF instant THEN 0 ELSE Transition(r)
      sd(l) == ServiceData(l, transition, b255, mireds, adapt_brightness[r], adapt_color_temp[r])
      reached == {l \in AppliedLights(targets) : ~NothingToChange(sd(l))}
      Pos(l) == CHOOSE i \in DOMAIN Lights(r) : Lights(r)[i] = l
      done == {l \in reached : \A f \in reached \cap fails : Pos(f) >= Pos(l)}
      rec == LastAppliedRecord(b255, mireds, adapt_brightness[r], adapt_color_temp[r])
  IN IF ~enabled(r) \/ (~adapt_brightness[r] /\ ~adapt_color_temp[r]) \/ targets = {}
     THEN [la |-> last_applied[r], sent |-> {}, failed |-> {}]
     ELSE [la |-> [l \in (DOMAIN last_applied[r]) \cup done |->
                     IF l \in done THEN rec ELSE last_applied[r][l]],
           sent |-> {sd(l) : l \in done \ fails},
           failed |-> done \cap fails]

\* variant: a light whose record already holds the values to send is left alone
apply_lighting_deduplicating(r, cb, cct, ids, instant, fails) ==
  LET targets == IF ids # {} THEN ids ELSE SeqToSet(Lights(r))
      b255 == Brightness255(cb)
      mireds == Mireds(cct)
      transition == IF instant THEN 0 ELSE Transition(r)
      sd(l) == ServiceData(l, transition, b255, mireds, adapt_brightness[r], adapt_color_temp[r])
      rec == LastAppliedRecord(b255, mireds, adapt_brightness[r], adapt_color_temp[r])
      reached == {l \in AppliedLights(targets) :
                    /\ ~NothingToChange(sd(l))
                    /\ ~(l \in DOMAIN last_applied[r] /\ last_applied[r][l] = rec)}
  IN IF ~enabled(r) \/ (~adapt_brightness[r] /\ ~adapt_color_temp[r]) \/ targets = {}
     THEN [la |-> last_applied[r], sent |-> {}, failed |-> {}]
     ELSE [la |-> [l \in (DOMAIN last_applied[r]) \cup reached |->
                     IF l \in reached THEN rec ELSE last_applied[r][l]],
           sent |-> {sd(l) : l \in reached \ fails},
           failed |-> reached \cap fails]

\* async_apply_lighting(entity_ids, instant) with the room's target being (cb, cct):
\* the new _last_applied, the commands dispatched and the lights whose call failed.
\* ids = {} stands for entity_ids = None; fails = the lights whose service call raises.
apply_lighting(r, cb, cct, ids, instant, fails) ==
  LET targets == IF ids # {} THEN ids ELSE SeqToSet(Lights(r))
      b255 == Brightness255(cb)
      mireds == Mireds(cct)
      transition == IF instant THEN 0 ELSE Transition(r)
      sd(l) == ServiceData(l, transition, b255, mireds, adapt_brightness[r], adapt_color_temp[r])
      reached == {l \in AppliedLights(targets) : ~NothingToChange(sd(l))}
      rec == LastAppliedRecord(b255, mireds, adapt_brightness[r], adapt_color_temp[r])
  IN IF ~enabled(r) \/ (~adapt_brightness[r] /\ ~adapt_color_temp[r]) \/ targets = {}
     THEN [la |-> last_applied[r], sent |-> {}, failed |-> {}]
     ELSE [la |-> [l \in (DOMAIN last_applied[r]) \cup reached |->
                     IF l \in reached THEN rec ELSE last_applied[r][l]],
           sent |-> {sd(l) : l \in reached \ fails},
           failed |-> reached \cap fails]

\* variants of the follow decision: the last member leads; a threshold above 0; no
\* "published" test
should_follow_last(r, controllers, shared_brightness) ==
  controllers # <<>> /\ controllers[Len(controllers)] # r /\ shared_brightness > 0
should_follow_threshold(r, controllers, shared_brightness) ==
  controllers # <<>> /\ controllers[1] # r /\ shared_brightness > DEFAULT_MIN_BRIGHTNESS
should_follow_unpublished(r, controllers, shared_brightness) ==
  controllers # <<>> /\ controllers[1] # r

\* line 641: the follow decision of a tick
should_follow(r, controllers, shared_brightness) ==
  controllers # <<>> /\ controllers[1] # r /\ shared_brightness > 0

\* variant: the tick ignores the override
update_skips_enabled_only(is_enabled, overridden) == ~is_enabled

\* line 631: the tick returns at once
update_skips(is_enabled, overridden) == ~is_enabled \/ overridden

Publish(sg, g, b, ct) ==
  IF g # "" /\ g \in DOMAIN sg
  THEN [sg EXCEPT ![g].brightness = b, ![g].color_temp = ct]
  ELSE sg

\* _async_update, run against the registry value sg: everything it writes
async_update(r, sun, sg, fails) ==
  LET en == enabled(r)
      rd == manual_override_read(manual_override[r], manual_override_until[r], now)
      \* "not self.enabled or self.manual_override": the property is read only when enabled
      armed == IF en THEN rd.armed ELSE manual_override[r]
      until == IF en THEN rd.until ELSE manual_override_until[r]
      skip == update_skips(en, en /\ rd.value)
      g == sync_group[r]
      grouped == g # "" /\ g \in DOMAIN sg
      use_sync == grouped /\ should_follow(r, sg[g].controllers, sg[g].brightness)
      cv == calculate_values(r, now, sun, sleep_mode[r])
      cb == IF use_sync THEN sg[g].brightness ELSE cv.brightness
      cct == IF use_sync THEN sg[g].color_temp ELSE cv.color_temp
      ap == apply_lighting(r, cb, cct, {}, FALSE, fails)
  IN IF skip
     THEN [armed |-> armed, until |-> until, read |-> en, skipped |-> TRUE,
           cb |-> current_brightness[r], cct |-> current_color_temp[r],
           tel |-> telemetry[r], sg |-> sg, la |-> last_applied[r],
           engine |-> FALSE, follow |-> FALSE, publish |-> FALSE, sent |-> {}, failed |-> {}]
     ELSE [armed |-> armed, until |-> until, read |-> en, skipped |-> FALSE,
           cb |-> cb, cct |-> cct,
           tel |-> IF use_sync THEN telemetry[r] ELSE cv.telemetry,
           sg |-> IF use_sync THEN sg ELSE Publish(sg, g, cv.brightness, cv.color_temp),
           la |-> ap.la,
           engine |-> ~use_sync, follow |-> use_sync,
           publish |-> ~use_sync /\ grouped,
           sent |-> ap.sent, failed |-> ap.failed]

\* variant: the recomputed target is stored and published but not applied
force_update_without_apply(r, sun, fails) ==
  LET cv == calculate_values(r, now, sun, sleep_mode[r])
      g == sync_group[r]
  IN [cb |-> cv.brightness, cct |-> cv.color_temp, tel |-> cv.telemetry,
      sg |-> Publish(sync_groups, g, cv.brightness, cv.color_temp),
      publish |-> g # "" /\ g \in DOMAIN sync_groups,
      la |-> last_applied[r], sent |-> {}, failed |-> {}]

\* variant: the forced update gives way to an armed, unexpired override
force_update_unless_overridden(r, sun, fails) ==
  LET cv == calculate_values(r, now, sun, sleep_mode[r])
      g == sync_group[r]
      ap == apply_lighting(r, cv.brightness, cv.color_temp, {}, FALSE, fails)
  IN IF manual_override[r] /\ (manual_override_until[r] = None \/ now <= manual_override_until[r])
     THEN [cb |-> current_brightness[r], cct |-> current_color_temp[r], tel |-> telemetry[r],
           sg |-> sync_groups, publish |-> FALSE,
           la |-> last_applied[r], sent |-> {}, failed |-> {}]
     ELSE [cb |-> cv.brightness, cct |-> cv.color_temp, tel |-> cv.telemetry,
           sg |-> Publish(sync_groups, g, cv.brightness, cv.color_temp),
           publish |-> g # "" /\ g \in DOMAIN sync_groups,
           la |-> ap.la, sent |-> ap.sent, failed |-> ap.failed]

\* async_force_update: everything it writes
force_update(r, sun, fails) ==
  LET cv == calculate_values(r, now, sun, sleep_mode[r])
      g == sync_group[r]
      ap == apply_lighting(r, cv.brightness, cv.color_temp, {}, FALSE, fails)
  IN [cb |-> cv.brightness, cct |-> cv.color_temp, tel |-> cv.telemetry,
      sg |-> Publish(sync_groups, g, cv.brightness, cv.color_temp),
      publish |-> g # "" /\ g \in DOMAIN sync_groups,
      la |-> ap.la, sent |-> ap.sent, failed |-> ap.failed]


\* tasks created with hass.async_create_task
NoTask == [kind |-> "none", room |-> "", ids |-> {}, duration |-> 0]
ApplyTask(r, ids) == [kind |-> "apply", room |-> r, ids |-> ids, duration |-> 0]
OverrideTask(r, d) == [kind |-> "override", room |-> r, ids |-> {}, duration |-> d]

\* light states as reported by hass.states
LightNone == [state |-> "none", brightness |-> None, color_temp |-> None]
LightOff == [state |-> "off", brightness |-> None, color_temp |-> None]
LightOn(b, ct) == [state |-> STATE_ON, brightness |-> b, color_temp |-> ct]

\* variant: either field within its tolerance is enough
is_our_change_either(new, expected) ==
  \/ Abs(OrZero(new.brightness) - OrZero(expected.brightness)) < BRIGHTNESS_TOLERANCE
  \/ Abs(OrZero(new.color_temp) - OrZero(expected.color_temp)) < COLOR_TEMP_TOLERANCE

\* lines 439-442: the change is attributed to the controller itself
is_our_change(new, expected) ==
  /\ Abs(OrZero(new.brightness) - OrZero(expected.brightness)) < BRIGHTNESS_TOLERANCE
  /\ Abs(OrZero(new.color_temp) - OrZero(expected.color_temp)) < COLOR_TEMP_TOLERANCE

\* lines 434-435
attributes_differ(old, new) ==
  new.brightness # old.brightness \/ new.color_temp # old.color_temp

\* variant: the causation marker of the new state is not looked at
light_changed_any_context(r, l, old, new, parent) ==
  IF ~enabled(r) THEN NoTask
  ELSE IF new.state = "none" THEN NoTask
  ELSE IF new.state = STATE_ON /\ (old.state = "none" \/ old.state # STATE_ON)
  THEN ApplyTask(r, {l})
  ELSE IF ~detect_override[r] \/ old.state = "none" THEN NoTask
  ELSE IF /\ new.state = STATE_ON /\ old.state = STATE_ON
          /\ attributes_differ(old, new)
          /\ l \in DOMAIN last_applied[r]
          /\ ~is_our_change(new, last_applied[r][l])
  THEN OverrideTask(r, OverrideTimeout(r))
  ELSE NoTask

\* variant: the debounced apply of a light that turned on targets all lights of the room
light_changed_all_lights(r, l, old, new, parent) ==
  IF ~enabled(r) THEN NoTask
  ELSE IF new.state = "none" THEN NoTask
  ELSE IF new.state = STATE_ON /\ (old.state = "none" \/ old.state # STATE_ON)
  THEN ApplyTask(r, {})
  ELSE IF ~detect_override[r] \/ old.state = "none" THEN NoTask
  ELSE IF parent THEN NoTask
  ELSE IF /\ new.state = STATE_ON /\ old.state = STATE_ON
          /\ attributes_differ(old, new)
          /\ l \in DOMAIN last_applied[r]
          /\ ~is_our_change(new, last_applied[r][l])
  THEN OverrideTask(r, OverrideTimeout(r))
  ELSE NoTask

\* variant: a light without a record is compared with an empty record
light_changed_unrecorded(r, l, old, new, parent) ==
  IF ~enabled(r) THEN NoTask
  ELSE IF new.state = "none" THEN NoTask
  ELSE IF new.state = STATE_ON /\ (old.state = "none" \/ old.state # STATE_ON)
  THEN ApplyTask(r, {l})
  ELSE IF ~detect_override[r] \/ old.state = "none" THEN NoTask
  ELSE IF parent THEN NoTask
  ELSE IF /\ new.state = STATE_ON /\ old.state = STATE_ON
          /\ attributes_differ(old, new)
          /\ ~is_our_change(new, IF l \in DOMAIN last_applied[r] THEN last_applied[r][l]
                                  ELSE [brightness |-> None, color_temp |-> None])
  THEN OverrideTask(r, OverrideTimeout(r))
  ELSE NoTask

\* light_changed: the task the callback creates for the event (old -> new) of light l
light_changed(r, l, old, new, parent) ==
  IF ~enabled(r) THEN NoTask
  ELSE IF new.state = "none" THEN NoTask
  ELSE IF new.state = STATE_ON /\ (old.state = "none" \/ old.state # STATE_ON)
  THEN ApplyTask(r, {l})
  ELSE IF ~detect_override[r] \/ old.state = "none" THEN NoTask
  ELSE IF parent THEN NoTask
  ELSE IF /\ new.state = STATE_ON /\ old.state = STATE_ON
          /\ attributes_differ(old, new)
          /\ l \in DOMAIN last_applied[r]
          /\ ~is_our_change(new, last_applied[r][l])
  THEN OverrideTask(r, OverrideTimeout(r))
  ELSE NoTask

\* variant: the previous state of the trigger is not looked at
trigger_changed_any_old(r, old, new) ==
  IF ~enabled(r) THEN NoTask
  ELSE IF new = "none" THEN NoTask
  ELSE IF new \in ACTIVE_STATES THEN ApplyTask(r, {})
  ELSE NoTask

\* trigger_changed: the task the callback creates for the event (old -> new) of a trigger
trigger_changed(r, old, new) ==
  IF ~enabled(r) THEN NoTask
  ELSE IF new = "none" THEN NoTask
  ELSE IF new \in ACTIVE_STATES /\ (old = "none" \/ old \notin ACTIVE_STATES)
  THEN ApplyTask(r, {})
  ELSE NoTask

\* ColorTempMiredsSensor.native_value
ColorTempMiredsSensor(ct) == IF ct > 0 THEN 1000000 \div ct ELSE 0

\* the observation record of a handler; the fields a handler does not set keep these values
Event(op, r) ==
  [op |-> op, room |-> r, engine |-> FALSE, follow |-> FALSE, publish |-> FALSE,
   read |-> FALSE, value |-> FALSE, sent |-> {}, failed |-> {}, ids |-> {},
   light |-> "", parent |-> FALSE, scheduled |-> "none", duration |-> 0, number |-> None]

\* ---------------------------------------------------------------- actions
WriteUpdate(r, u, op) ==
  /\ manual_override' = [manual_override EXCEPT ![r] = u.armed]
  /\ manual_override_until' = [manual_override_until EXCEPT ![r] = u.until]
  /\ current_brightness' = [current_brightness EXCEPT ![r] = u.cb]
  /\ current_color_temp' = [current_color_temp EXCEPT ![r] = u.cct]
  /\ telemetry' = [telemetry EXCEPT ![r] = u.tel]
  /\ last_applied' = [last_applied EXCEPT ![r] = u.la]
  /\ sync_groups' = u.sg
  /\ ev' = [Event(op, r) EXCEPT !.engine = u.engine, !.follow = u.follow,
                                !.publish = u.publish, !.read = u.read,
                                !.value = u.read /\ u.skipped, !.sent = u.sent,
                                !.failed = u.failed]

\* variant: the newcomer is put at the head of the member list
JoinAtHead(sg, g, r) ==
  IF g = "" THEN sg
  ELSE IF g \notin DOMAIN sg
  THEN DictSet(sg, g, [brightness |-> 0, color_temp |-> 0, controllers |-> <<r>>])
  ELSE [sg EXCEPT ![g].controllers = <<r>> \o @]

\* the registry after the room has joined its group (lines 337-345)
Join(sg, g, r) ==
  IF g = "" THEN sg
  ELSE IF g \notin DOMAIN sg
  THEN DictSet(sg, g, [brightness |-> 0, color_temp |-> 0, controllers |-> <<r>>])
  ELSE [sg EXCEPT ![g].controllers = Append(@, r)]

RemoveFirst(seq, x) ==
  IF \E i \in DOMAIN seq : seq[i] = x
  THEN LET i == CHOOSE j \in DOMAIN seq : seq[j] = x /\ \A k \in 1..(j - 1) : seq[k] # x
       IN SubSeq(seq, 1, i - 1) \o SubSeq(seq, i + 1, Len(seq))
  ELSE seq

\* variant: the member list is emptied when a member leaves
LeaveDissolving(sg, g, r) ==
  IF g # "" /\ g \in DOMAIN sg
  THEN [sg EXCEPT ![g].controllers = <<>>]
  ELSE sg

\* variant: the shared target is reset when the last member leaves
LeaveResetting(sg, g, r) ==
  IF g # "" /\ g \in DOMAIN sg
  THEN IF RemoveFirst(sg[g].controllers, r) = <<>>
       THEN [sg EXCEPT ![g] = [brightness |-> 0, color_temp |-> 0, controllers |-> <<>>]]
       ELSE [sg EXCEPT ![g].controllers = RemoveFirst(@, r)]
  ELSE sg

\* variant: the room stays in the member list
LeaveKeepingMember(sg, g, r) == sg

\* the registry after the room has left its group (lines 469-473)
Leave(sg, g, r) ==
  IF g # "" /\ g \in DOMAIN sg
  THEN [sg EXCEPT ![g].controllers = RemoveFirst(@, r)]
  ELSE sg

JoinCount == Cardinality({r \in Rooms : joined_at[r] > 0})

\* async_start: join the group, run the initial update, subscribe
Start(r, sun) ==
  /\ lifecycle[r] = "new"
  /\ lifecycle' = [lifecycle EXCEPT ![r] = "running"]
  /\ joined_at' = [joined_at EXCEPT ![r] = IF sync_group[r] # "" THEN JoinCount + 1 ELSE 0]
  /\ WriteUpdate(r, async_update(r, sun, Join(sync_groups, sync_group[r], r), {}), "start")
  /\ UNCHANGED <<cfgvars, envvars, internal_enabled, sleep_mode, adapt_brightness,
                 adapt_color_temp, tasks, last_set>>

\* async_stop: unsubscribe and leave the group
Stop(r) ==
  /\ lifecycle[r] = "running"
  /\ lifecycle' = [lifecycle EXCEPT ![r] = "stopped"]
  /\ sync_groups' = Leave(sync_groups, sync_group[r], r)
  /\ ev' = Event("stop", r)
  /\ UNCHANGED <<cfgvars, envvars, roomvars, tasks, joined_at, last_set>>

\* async_unload_entry after async_stop: the platforms are unloaded and the controller is
\* removed from hass.data, where the service handlers look it up
Unload(r) ==
  /\ lifecycle[r] = "stopped"
  /\ lifecycle' = [lifecycle EXCEPT ![r] = "unloaded"]
  /\ ev' = Event("unload", r)
  /\ UNCHANGED <<cfgvars, envvars, roomvars, sync_groups, tasks, joined_at, last_set>>

\* the periodic tick: _async_update called by async_track_time_interval, with the service
\* call raising for the lights in fails
TickFailing(r, sun, fails) ==
  /\ lifecycle[r] = "running"
  /\ WriteUpdate(r, async_update(r, sun, sync_groups, fails), "tick")
  /\ UNCHANGED <<cfgvars, envvars, lifecycle, internal_enabled, sleep_mode, adapt_brightness,
                 adapt_color_temp, tasks, joined_at, last_set>>

\* a tick during which no service call raises
Tick(r, sun) == TickFailing(r, sun, {})

\* variant: an expiry that is already later is kept
override_until_merged(r, d) ==
  IF manual_override_until[r] # None /\ manual_override_until[r] > now + d
  THEN manual_override_until[r] ELSE now + d

\* line 480: utcnow() + timedelta(minutes=duration_minutes)
override_until(r, d) == now + d

\* async_set_manual_override(duration_minutes)
WriteOverride(r, d) ==
  /\ manual_override' = [manual_override EXCEPT ![r] = TRUE]
  /\ manual_override_until' = [manual_override_until EXCEPT ![r] = override_until(r, d)]
  /\ last_set' = [last_set EXCEPT ![r] = <<now, d>>]
  /\ UNCHANGED <<cfgvars, envvars, lifecycle, internal_enabled, sleep_mode, adapt_brightness,
                 adapt_color_temp, current_brightness, current_color_temp, telemetry,
                 last_applied, sync_groups, joined_at>>

\* the set_manual_override service and ManualOverrideSwitch.async_turn_on
SetOverride(r, d) ==
  /\ lifecycle[r] = "running"
  /\ WriteOverride(r, d)
  /\ ev' = [Event("set_override", r) EXCEPT !.duration = d]
  /\ UNCHANGED tasks

\* async_clear_manual_override: clear the window, then async_force_update; the service
\* handler finds the controller while its lifecycle is one of phases
ClearOverrideIn(r, sun, phases) ==
  /\ lifecycle[r] \in phases
  /\ LET f == force_update(r, sun, {})
     IN /\ manual_override' = [manual_override EXCEPT ![r] = FALSE]
        /\ manual_override_until' = [manual_override_until EXCEPT ![r] = None]
        /\ current_brightness' = [current_brightness EXCEPT ![r] = f.cb]
        /\ current_color_temp' = [current_color_temp EXCEPT ![r] = f.cct]
        /\ telemetry' = [telemetry EXCEPT ![r] = f.tel]
        /\ last_applied' = [last_applied EXCEPT ![r] = f.la]
        /\ sync_groups' = f.sg
        /\ ev' = [Event("clear_override", r) EXCEPT !.engine = TRUE, !.publish = f.publish,
                                                    !.sent = f.sent]
  /\ last_set' = [last_set EXCEPT ![r] = <<>>]
  /\ UNCHANGED <<cfgvars, envvars, lifecycle, internal_enabled, sleep_mode, adapt_brightness,
                 adapt_color_temp, tasks, joined_at>>

\* the override is cleared on a started controller
ClearOverride(r, sun) == ClearOverrideIn(r, sun, {"running"})

\* a poll of ManualOverrideSwitch.is_on: one read of the manual_override property
ReadOverride(r) ==
  /\ lifecycle[r] = "running"
  /\ LET rd == manual_override_read(manual_override[r], manual_override_until[r], now)
     IN /\ manual_override' = [manual_override EXCEPT ![r] = rd.armed]
        /\ manual_override_until' = [manual_override_until EXCEPT ![r] = rd.until]
        /\ ev' = [Event("read_override", r) EXCEPT !.read = TRUE, !.value = rd.value]
  /\ UNCHANGED <<cfgvars, envvars, lifecycle, internal_enabled, sleep_mode, adapt_brightness,
                 adapt_color_temp, current_brightness, current_color_temp, telemetry,
                 last_applied, sync_groups, tasks, joined_at, last_set>>

\* EnabledSwitch.async_turn_on / async_turn_off
SetEnabled(r, v) ==
  /\ lifecycle[r] = "running"
  /\ internal_enabled[r] # v
  /\ internal_enabled' = [internal_enabled EXCEPT ![r] = v]
  /\ ev' = Event("set_enabled", r)
  /\ UNCHANGED <<cfgvars, envvars, lifecycle, sleep_mode, adapt_brightness, adapt_color_temp,
                 manual_override, manual_override_until, current_brightness,
                 current_color_temp, telemetry, last_applied, sync_groups, tasks,
                 joined_at, last_set>>

\* the external enable entity changes its state
EntityChange(e, v) ==
  /\ entity_state[e] # v
  /\ entity_state' = [entity_state EXCEPT ![e] = v]
  /\ ev' = Event("entity_change", "")
  /\ UNCHANGED <<cfgvars, now, lights, trigger_state, sun_state, lifecycle, roomvars,
                 sync_groups, tasks, joined_at, last_set>>

\* time passes
Advance ==
  /\ now < StartTime + MaxSteps * TimeStep
  /\ now' = now + TimeStep
  /\ ev' = Event("advance", "")
  /\ UNCHANGED <<cfgvars, entity_state, lights, trigger_state, sun_state, lifecycle, roomvars,
                 sync_groups, tasks, joined_at, last_set>>

\* the sun.sun entity reports a new state
SunChange(s) ==
  /\ sun_state # s
  /\ sun_state' = s
  /\ ev' = Event("sun_change", "")
  /\ UNCHANGED <<cfgvars, now, entity_state, lights, trigger_state, lifecycle, roomvars,
                 sync_groups, tasks, joined_at, last_set>>

\* light l reports the new state; the room's light_changed callback runs if subscribed
\* (at most cap tasks are pending at a time)
LightEventUpTo(l, new, parent, cap) ==
  LET r == RoomOfLight(l)
      t == IF lifecycle[r] = "running" THEN light_changed(r, l, lights[l], new, parent) ELSE NoTask
  IN /\ new # lights[l]
     /\ t = NoTask \/ BagCardinality(tasks) < cap
     /\ lights' = [lights EXCEPT ![l] = new]
     /\ tasks' = IF t = NoTask THEN tasks ELSE tasks (+) SetToBag({t})
     /\ ev' = [Event("light_changed", r) EXCEPT !.light = l, !.parent = parent,
                                                !.scheduled = t.kind, !.duration = t.duration]
     /\ UNCHANGED <<cfgvars, now, entity_state, trigger_state, sun_state, lifecycle, roomvars,
                    sync_groups, joined_at, last_set>>

LightEvent(l, new, parent) == LightEventUpTo(l, new, parent, MaxPending)

\* trigger entity e reports the new state; the room's trigger_changed callback runs if
\* subscribed (an event with an unchanged state is a change of attributes)
TriggerEvent(e, new, cap) ==
  LET r == RoomOfTrigger(e)
      t == IF lifecycle[r] = "running" THEN trigger_changed(r, trigger_state[e], new) ELSE NoTask
  IN /\ new # "none" \/ trigger_state[e] # "none"
     /\ t = NoTask \/ BagCardinality(tasks) < cap
     /\ trigger_state' = [trigger_state EXCEPT ![e] = new]
     /\ tasks' = IF t = NoTask THEN tasks ELSE tasks (+) SetToBag({t})
     /\ ev' = [Event("trigger_changed", r) EXCEPT !.light = e, !.scheduled = t.kind]
     /\ UNCHANGED <<cfgvars, now, entity_state, lights, sun_state, lifecycle, roomvars,
                    sync_groups, joined_at, last_set>>

\* the task created by override detection runs: async_set_manual_override(timeout)
RunOverrideTask(t) ==
  /\ BagIn(t, tasks)
  /\ t.kind = "override"
  /\ tasks' = tasks (-) SetToBag({t})
  /\ WriteOverride(t.room, t.duration)
  /\ ev' = [Event("set_override_task", t.room) EXCEPT !.duration = t.duration]

\* a debounced task fires after its delay: async_apply_lighting(ids, instant), with the
\* service call raising for the lights in fails
DelayedApply(t, fails) ==
  /\ BagIn(t, tasks)
  /\ t.kind = "apply"
  /\ tasks' = tasks (-) SetToBag({t})
  /\ LET ap == apply_lighting(t.room, current_brightness[t.room], current_color_temp[t.room],
                              t.ids, InstantTransition(t.room), fails)
     IN /\ last_applied' = [last_applied EXCEPT ![t.room] = ap.la]
        /\ ev' = [Event("delayed_apply", t.room) EXCEPT !.sent = ap.sent, !.failed = ap.failed,
                                                        !.ids = t.ids]
  /\ UNCHANGED <<cfgvars, envvars, lifecycle, internal_enabled, sleep_mode, adapt_brightness,
                 adapt_color_temp, manual_override, manual_override_until,
                 current_brightness, current_color_temp, telemetry, sync_groups,
                 joined_at, last_set>>

\* a debounced task fires and no service call raises
RunApplyTask(t) == DelayedApply(t, {})

\* the apply_lighting service: async_apply_lighting(entity_id) on the room's controller;
\* the handler finds the controller while its lifecycle is one of phases
ApplyServiceIn(r, ids, fails, phases) ==
  /\ lifecycle[r] \in phases
  /\ LET ap == apply_lighting(r, current_brightness[r], current_color_temp[r], ids, FALSE, fails)
     IN /\ last_applied' = [last_applied EXCEPT ![r] = ap.la]
        /\ ev' = [Event("apply_service", r) EXCEPT !.sent = ap.sent, !.failed = ap.failed,
                                                   !.ids = ids]
  /\ UNCHANGED <<cfgvars, envvars, lifecycle, internal_enabled, sleep_mode, adapt_brightness,
                 adapt_color_temp, manual_override, manual_override_until,
                 current_brightness, current_color_temp, telemetry, sync_groups, tasks,
                 joined_at, last_set>>

\* the apply service called for a started controller
ApplyService(r, ids, fails) == ApplyServiceIn(r, ids, fails, {"running"})

\* SleepModeSwitch.async_turn_on / async_turn_off
SetSleepMode(r, v) ==
  /\ lifecycle[r] = "running"
  /\ sleep_mode[r] # v
  /\ sleep_mode' = [sleep_mode EXCEPT ![r] = v]
  /\ ev' = Event("set_sleep_mode", r)
  /\ UNCHANGED <<cfgvars, envvars, lifecycle, internal_enabled, adapt_brightness,
                 adapt_color_temp, manual_override, manual_override_until, current_brightness,
                 current_color_temp, telemetry, last_applied, sync_groups, tasks,
                 joined_at, last_set>>

\* the adapt_brightness and adapt_color_temp setters
SetAdaptBrightness(r, v) ==
  /\ lifecycle[r] = "running"
  /\ adapt_brightness[r] # v
  /\ adapt_brightness' = [adapt_brightness EXCEPT ![r] = v]
  /\ ev' = Event("set_adapt_brightness", r)
  /\ UNCHANGED <<cfgvars, envvars, lifecycle, internal_enabled, sleep_mode,
                 adapt_color_temp, manual_override, manual_override_until, current_brightness,
                 current_color_temp, telemetry, last_applied, sync_groups, tasks,
                 joined_at, last_set>>

SetAdaptColorTemp(r, v) ==
  /\ lifecycle[r] = "running"
  /\ adapt_color_temp[r] # v
  /\ adapt_color_temp' = [adapt_color_temp EXCEPT ![r] = v]
  /\ ev' = Event("set_adapt_color_temp", r)
  /\ UNCHANGED <<cfgvars, envvars, lifecycle, internal_enabled, sleep_mode,
                 adapt_brightness, manual_override, manual_override_until, current_brightness,
                 current_color_temp, telemetry, last_applied, sync_groups, tasks,
                 joined_at, last_set>>

\* SleepBrightnessNumber / SleepColorTempNumber.async_set_native_value(v): v is stored in the
\* attribute sleep_brightness / sleep_color_temp of the controller, which nothing in the
\* controller reads (the engine reads _sleep_brightness / _sleep_color_temp), then
\* async_force_update runs if sleep mode is on
SetSleepNumber(r, which, v, sun, fails) ==
  /\ lifecycle[r] = "running"
  /\ IF sleep_mode[r]
     THEN LET f == force_update(r, sun, fails)
          IN /\ current_brightness' = [current_brightness EXCEPT ![r] = f.cb]
             /\ current_color_temp' = [current_color_temp EXCEPT ![r] = f.cct]
             /\ telemetry' = [telemetry EXCEPT ![r] = f.tel]
             /\ last_applied' = [last_applied EXCEPT ![r] = f.la]
             /\ sync_groups' = f.sg
             /\ ev' = [Event("force_update", r) EXCEPT !.engine = TRUE, !.publish = f.publish,
                                                      !.sent = f.sent, !.failed = f.failed,
                                                      !.light = which, !.number = v]
     ELSE /\ ev' = [Event("set_sleep_value", r) EXCEPT !.light = which, !.number = v]
          /\ UNCHANGED <<current_brightness, current_color_temp, telemetry, last_applied,
                         sync_groups>>
  /\ UNCHANGED <<cfgvars, envvars, lifecycle, internal_enabled, sleep_mode, adapt_brightness,
                 adapt_color_temp, manual_override, manual_override_until, tasks,
                 joined_at, last_set>>

\* the sleep-brightness number is set to the value it already shows
SetSleepValue(r, sun, fails) ==
  SetSleepNumber(r, "sleep_brightness", DEFAULT_SLEEP_BRIGHTNESS, sun, fails)

\* ---------------------------------------------------------- specifications
EnableEntities == {EnableEntity(r) : r \in Rooms} \ {""}
Durations == {SWITCH_OVERRIDE_MINUTES, TimeStep}

\* the controllers right after their construction
InitControllers ==
  /\ lifecycle = [r \in Rooms |-> "new"]
  /\ internal_enabled = [r \in Rooms |-> TRUE]
  /\ sleep_mode = [r \in Rooms |-> FALSE]
  /\ adapt_brightness = [r \in Rooms |-> TRUE]
  /\ adapt_color_temp = [r \in Rooms |-> TRUE]
  /\ manual_override = [r \in Rooms |-> FALSE]
  /\ manual_override_until = [r \in Rooms |-> None]
  /\ current_brightness = [r \in Rooms |-> 0]
  /\ current_color_temp = [r \in Rooms |-> 0]
  /\ telemetry = [r \in Rooms |-> InitTelemetry]
  /\ last_applied = [r \in Rooms |-> EmptyDict]
  /\ sync_groups = EmptyDict
  /\ trigger_state = [e \in AllTriggers |-> "off"]
  /\ tasks = EmptyBag
  /\ ev = Event("init", "")
  /\ joined_at = [r \in Rooms |-> 0]
  /\ last_set = [r \in Rooms |-> <<>>]

\* the clock starts at noon; the sun is drawn afresh for every handler
InitRooms ==
  /\ now = StartTime
  /\ sun_state = NoSun
  /\ InitControllers

InitConfig(groups, detect, entities) ==
  /\ InitRooms
  /\ sync_group \in groups
  /\ detect_override \in detect
  /\ entity_state \in entities

\* the sun states read in the specifications about rooms: night and afternoon
RoomSuns(t) == {SunState(-10, t + 2 * TimeStep, t + 6 * TimeStep),
                SunState(30, t + 5 * TimeStep, t + TimeStep)}

\* Spec: rooms A and B in one group, started and stopped in any order, ticking, with timed
\* overrides, the external enable inputs and the clock; the lights keep their state.
SpecRooms == {"A", "B"}

Init ==
  /\ InitConfig({[r \in Rooms |-> "g"]}, {[r \in Rooms |-> TRUE]},
                [EnableEntities -> {"on", "off"}])
  /\ lights = [l \in AllLights |-> IF l = "a2" THEN LightOff ELSE LightOn(128, 300)]

Next ==
  \/ \E r \in SpecRooms, sun \in RoomSuns(now) : Start(r, sun)
  \/ \E r \in SpecRooms : Stop(r)
  \/ \E r \in SpecRooms, sun \in RoomSuns(now) : Tick(r, sun)
  \/ \E r \in SpecRooms : SetOverride(r, TimeStep)
  \/ \E e \in EnableEntities, v \in {"on", "off"} : EntityChange(e, v)
  \/ Advance

Spec == Init /\ [][Next]_vars

\* SpecJoin: three rooms joining and leaving the group in any order, and ticking.
InitJoin ==
  /\ InitConfig({[r \in Rooms |-> "g"], [r \in Rooms |-> IF r = "C" THEN "" ELSE "g"]},
                {[r \in Rooms |-> TRUE]}, [EnableEntities -> {"on", "off"}])
  /\ lights = [l \in AllLights |-> IF l = "a2" THEN LightOff ELSE LightOn(128, 300)]

NextJoin ==
  \/ \E r \in Rooms, sun \in RoomSuns(now) : Start(r, sun)
  \/ \E r \in Rooms : Stop(r)
  \/ \E r \in Rooms, sun \in RoomSuns(now) : Tick(r, sun)
  \/ \E e \in EnableEntities, v \in {"on", "off"} : EntityChange(e, v)

SpecJoin == InitJoin /\ [][NextJoin]_vars

\* SpecOverride: room A alone, with the override service and switch, polls of the override
\* flag, the enable switch and the clock; the lights keep their state.
InitOverride ==
  /\ InitConfig({[r \in Rooms |-> "g"]}, {[r \in Rooms |-> TRUE]},
                {[e \in EnableEntities |-> "on"]})
  /\ lights \in {[l \in AllLights |-> IF l = "a2" THEN LightOff ELSE LightOn(128, 300)],
                 [l \in AllLights |-> IF l = "a1" THEN LightOff ELSE LightOn(128, None)]}

NextOverride ==
  \/ \E sun \in RoomSuns(now) : Start("A", sun)
  \/ \E sun \in RoomSuns(now) : Tick("A", sun)
  \/ \E d \in Durations : SetOverride("A", d)
  \/ \E sun \in RoomSuns(now) : ClearOverride("A", sun)
  \/ ReadOverride("A")
  \/ \E v \in BOOLEAN : SetEnabled("A", v)
  \/ Advance

SpecOverride == InitOverride /\ [][NextOverride]_vars

\* SpecLights: room A alone, with its two lights reporting state changes that the
\* light_changed callback observes, the tasks it creates, and the override controls.
ObservedStates(l) ==
  IF l = "a1"
  THEN {LightNone, LightOff, LightOn(None, None)}
       \cup {LightOn(b, ct) : b \in {51, 55, 56}, ct \in {454, 464}}
  ELSE {LightOff, LightOn(51, None)}

InitLights ==
  /\ InitConfig({[r \in Rooms |-> "g"]}, {[r \in Rooms |-> TRUE], [r \in Rooms |-> FALSE]},
                {[e \in EnableEntities |-> "on"]})
  /\ lights = [l \in AllLights |-> LightOff]

NextLights ==
  \/ \E sun \in RoomSuns(now) : Start("A", sun)
  \/ \E sun \in RoomSuns(now) : Tick("A", sun)
  \/ SetOverride("A", TimeStep)
  \/ \E sun \in RoomSuns(now) : ClearOverride("A", sun)
  \/ \E v \in BOOLEAN : SetEnabled("A", v)
  \/ \E l \in SeqToSet(Lights("A")) : \E new \in ObservedStates(l), parent \in BOOLEAN :
       LightEvent(l, new, parent)
  \/ \E t \in BagToSet(tasks) : RunOverrideTask(t)
  \/ \E t \in BagToSet(tasks) : RunApplyTask(t)

SpecLights == InitLights /\ [][NextLights]_vars

\* SpecResume: room A alone with a light whose brightness is changed by hand, the override
\* the detection arms, the clock, and the interval timer that keeps calling the tick.
ResumeStates == {LightOn(51, 454), LightOn(56, 454)}

InitResume ==
  /\ InitConfig({[r \in Rooms |-> "g"]}, {[r \in Rooms |-> TRUE]},
                {[e \in EnableEntities |-> "on"]})
  /\ lights = [l \in AllLights |-> IF l = "a1" THEN LightOn(51, 454) ELSE LightOff]

\* the sun stays below the horizon while the override runs out
NightSuns(t) == {SunState(-10, t + 2 * TimeStep, t + 6 * TimeStep)}

NextResume ==
  \/ \E sun \in NightSuns(now) : Start("A", sun)
  \/ \E sun \in NightSuns(now) : Tick("A", sun)
  \/ \E new \in ResumeStates : LightEvent("a1", new, FALSE)
  \/ \E t \in BagToSet(tasks) : RunOverrideTask(t)
  \/ \E sun \in NightSuns(now) : ClearOverride("A", sun)
  \/ \E v \in BOOLEAN : SetEnabled("A", v)
  \/ Advance

\* async_track_time_interval keeps firing the tick of a started room
SpecResume ==
  InitResume /\ [][NextResume]_vars /\ WF_vars(\E sun \in NightSuns(now) : Tick("A", sun))

\* SpecForce: rooms A and B in one group, with timed overrides, the sleep-mode switch and
\* the sleep-value numbers, whose change forces an update while sleep mode is on.
InitForce ==
  /\ InitConfig({[r \in Rooms |-> "g"]}, {[r \in Rooms |-> TRUE]},
                [EnableEntities -> {"on", "off"}])
  /\ lights = [l \in AllLights |-> IF l = "a2" THEN LightOff ELSE LightOn(128, 300)]

NextForce ==
  \/ \E r \in SpecRooms, sun \in RoomSuns(now) : Start(r, sun)
  \/ \E r \in SpecRooms, sun \in RoomSuns(now) : Tick(r, sun)
  \/ \E r \in SpecRooms : SetOverride(r, TimeStep)
  \/ \E r \in SpecRooms, v \in BOOLEAN : SetSleepMode(r, v)
  \/ \E r \in SpecRooms, sun \in RoomSuns(now) : SetSleepValue(r, sun, {})
  \/ \E e \in EnableEntities, v \in {"on", "off"} : EntityChange(e, v)

SpecForce == InitForce /\ [][NextForce]_vars

\* SpecTrigger: room A alone with its trigger entity and its two lights switching on and
\* off, the debounced applies these events schedule, and the enable switch.
TriggerStates == {"none", "off", "unavailable", "on", "home"}
TurnOnStates(l) ==
  IF l = "a1" THEN {LightNone, LightOff, LightOn(128, 300)} ELSE {LightOff, LightOn(128, None)}
\* two debounced tasks may be waiting for their delay at the same time
DelayedCap == MaxPending + 1

InitTrigger ==
  /\ InitConfig({[r \in Rooms |-> "g"]}, {[r \in Rooms |-> TRUE]},
                {[e \in EnableEntities |-> "on"]})
  /\ lights = [l \in AllLights |-> LightOff]

NextTrigger ==
  \/ \E sun \in RoomSuns(now) : Start("A", sun)
  \/ \E v \in BOOLEAN : SetEnabled("A", v)
  \/ \E e \in SeqToSet(TriggerEntities("A")), new \in TriggerStates :
       TriggerEvent(e, new, DelayedCap)
  \/ \E l \in SeqToSet(Lights("A")) : \E new \in TurnOnStates(l) :
       LightEventUpTo(l, new, FALSE, DelayedCap)
  \/ \E t \in BagToSet(tasks) : RunApplyTask(t)

SpecTrigger == InitTrigger /\ [][NextTrigger]_vars

\* SpecApply: room A alone, started enabled or disabled, with every path into
\* async_apply_lighting (tick, debounced trigger, debounced light-on, forced update, the
\* apply service), lights switching on and off, and service calls that raise.
FailSets == {{}, {"a1"}}
ServiceIds == {{}, {"a2"}}
ApplyTriggerStates == {"off", "on"}

InitApply ==
  /\ InitConfig({[r \in Rooms |-> "g"]}, {[r \in Rooms |-> FALSE]},
                {[e \in EnableEntities |-> IF e = EnableEntity("A") THEN v ELSE "on"] :
                   v \in {"on", "off"}})
  /\ lights = [l \in AllLights |-> LightOff]

NextApply ==
  \/ \E sun \in NightSuns(now) : Start("A", sun)
  \/ \E sun \in NightSuns(now), fails \in FailSets : TickFailing("A", sun, fails)
  \/ \E v \in {"on", "off"} : EntityChange(EnableEntity("A"), v)
  \/ \E l \in SeqToSet(Lights("A")) : \E new \in TurnOnStates(l) : LightEvent(l, new, FALSE)
  \/ \E e \in SeqToSet(TriggerEntities("A")), new \in ApplyTriggerStates :
       TriggerEvent(e, new, MaxPending)
  \/ \E t \in BagToSet(tasks), fails \in FailSets : DelayedApply(t, fails)
  \/ \E ids \in ServiceIds, fails \in FailSets : ApplyService("A", ids, fails)
  \/ \E sun \in NightSuns(now) : ClearOverride("A", sun)

SpecApply == InitApply /\ [][NextApply]_vars

\* SpecAdapt: room A alone with the two adaptation toggles, its lights switching on and
\* off, ticks and the debounced applies of lights that turn on.
AdaptStates(l) == IF l = "a1" THEN {LightOff, LightOn(128, 300)} ELSE {LightOff, LightOn(128, None)}

InitAdapt ==
  /\ InitConfig({[r \in Rooms |-> "g"]}, {[r \in Rooms |-> FALSE]},
                {[e \in EnableEntities |-> "on"]})
  /\ lights = [l \in AllLights |-> LightOff]

NextAdapt ==
  \/ \E sun \in RoomSuns(now) : Start("A", sun)
  \/ \E sun \in RoomSuns(now) : Tick("A", sun)
  \/ \E l \in SeqToSet(Lights("A")) : \E new \in AdaptStates(l) : LightEvent(l, new, FALSE)
  \/ \E t \in BagToSet(tasks) : RunApplyTask(t)
  \/ \E v \in BOOLEAN : SetAdaptBrightness("A", v)
  \/ \E v \in BOOLEAN : SetAdaptColorTemp("A", v)

SpecAdapt == InitAdapt /\ [][NextAdapt]_vars

\* SpecConvert: rooms B and C on their own (no group), their light on, started and ticking
\* under a range of sun elevations: B's brightness and C's color temperature follow the
\* elevation, so the targets converted by the apply cover many percentages and Kelvin values.
ConvertElevations == {0, 1, 2, 5, 9, 14, 20, 27, 35, 44, 54, 60}
ConvertSuns(t) == {SunState(e, t + 5 * TimeStep, t + TimeStep) : e \in ConvertElevations}
ConvertRooms == {"B", "C"}

InitConvert ==
  /\ InitConfig({[r \in Rooms |-> ""]}, {[r \in Rooms |-> FALSE]},
                {[e \in EnableEntities |-> "on"]})
  /\ lights = [l \in AllLights |-> LightOn(128, 300)]

NextConvert ==
  \/ \E r \in ConvertRooms, sun \in ConvertSuns(now) : Start(r, sun)
  \/ \E r \in ConvertRooms, sun \in ConvertSuns(now) : Tick(r, sun)

SpecConvert == InitConvert /\ [][NextConvert]_vars

\* SpecDebounce: room A alone with its trigger entity and its two lights switching on and
\* off, up to two debounced applies waiting for their delay at a time, and ticks that
\* change the target in between.
InitDebounce ==
  /\ InitConfig({[r \in Rooms |-> "g"]}, {[r \in Rooms |-> FALSE]},
                {[e \in EnableEntities |-> "on"]})
  /\ lights = [l \in AllLights |-> LightOff]

NextDebounce ==
  \/ \E sun \in RoomSuns(now) : Start("A", sun)
  \/ \E sun \in RoomSuns(now) : Tick("A", sun)
  \/ \E e \in SeqToSet(TriggerEntities("A")), new \in ApplyTriggerStates :
       TriggerEvent(e, new, DelayedCap)
  \/ \E l \in SeqToSet(Lights("A")) : \E new \in AdaptStates(l) :
       LightEventUpTo(l, new, FALSE, DelayedCap)
  \/ \E t \in BagToSet(tasks) : RunApplyTask(t)

SpecDebounce == InitDebounce /\ [][NextDebounce]_vars

\* SpecStop: rooms A and B in one group; room A started and stopped, with its trigger, its
\* lights, the debounced applies they schedule, its enable input, and the services, which
\* reach a stopped controller until the unload has removed it from hass.data.
Registered == {"running", "stopped"}

InitStop ==
  /\ InitConfig({[r \in Rooms |-> "g"]}, {[r \in Rooms |-> FALSE]},
                {[e \in EnableEntities |-> "on"]})
  /\ lights = [l \in AllLights |-> LightOff]

NextStop ==
  \/ \E r \in SpecRooms, sun \in NightSuns(now) : Start(r, sun)
  \/ Stop("A")
  \/ Unload("A")
  \/ \E sun \in NightSuns(now) : Tick("A", sun)
  \/ \E v \in {"on", "off"} : EntityChange(EnableEntity("A"), v)
  \/ \E e \in SeqToSet(TriggerEntities("A")), new \in ApplyTriggerStates :
       TriggerEvent(e, new, MaxPending)
  \/ \E l \in SeqToSet(Lights("A")) : \E new \in AdaptStates(l) : LightEvent(l, new, FALSE)
  \/ \E t \in BagToSet(tasks) : RunApplyTask(t)
  \/ ApplyServiceIn("A", {}, {}, Registered)
  \/ \E sun \in NightSuns(now) : ClearOverrideIn("A", sun, Registered)

SpecStop == InitStop /\ [][NextStop]_vars

\* SpecSleep: rooms A and B in one group with their lights on, the sleep-mode switch and
\* the two sleep numbers set to values of their ranges (1..50 %, 1800..4000 K).
SleepNumbers == {"sleep_brightness", "sleep_color_temp"}
SleepNumberValues(which) == IF which = "sleep_brightness" THEN {5, 10} ELSE {2000, 1800}

InitSleep ==
  /\ InitConfig({[r \in Rooms |-> "g"]}, {[r \in Rooms |-> FALSE]},
                {[e \in EnableEntities |-> "on"]})
  /\ lights = [l \in AllLights |-> LightOn(128, 300)]

NextSleep ==
  \/ \E r \in SpecRooms, sun \in NightSuns(now) : Start(r, sun)
  \/ \E r \in SpecRooms, sun \in NightSuns(now) : Tick(r, sun)
  \/ \E r \in SpecRooms, v \in BOOLEAN : SetSleepMode(r, v)
  \/ \E r \in SpecRooms, which \in SleepNumbers, sun \in NightSuns(now) :
       \E v \in SleepNumberValues(which) : SetSleepNumber(r, which, v, sun, {})

SpecSleep == InitSleep /\ [][NextSleep]_vars

\* SpecEngine: one room on its own (no group), set up at some time of the day, with the
\* sun.sun entity missing, fresh, lagging behind or incomplete, ticks that read it, and
\* the sleep-mode switch.
EngineTimes == {300, 360, 540, 720, 900, 1080, 1110, 1139, 1140, 1380}
EngineSuns(t) ==
  {NoSun,
   SunState(-10, t + 360, t + 1080),      \* night
   SunState(15, t + 1260, t + 540),       \* morning
   SunState(60, t + 1080, t + 360),       \* noon
   SunState(30, t + 900, t + 180),        \* afternoon
   SunState(0, t + 1410, t + 690),        \* half an hour after sunrise, sun on the horizon
   SunState(-1, t + 750, t + 30),         \* half an hour before sunset, sun below the horizon
   SunState(30, t - 180, t + 540),        \* next_rising not refreshed since the sunrise
   SunState(-5, t - 30, t + 690),         \* the same with the sun still down
   SunState(30, t - 720, t - 2 * DAY),    \* both timestamps out of date
   SunState(30, None, t + 180),           \* no next_rising attribute
   SunState(-10, None, None),             \* neither attribute
   SunState(-10, t + DAY + 360, t + DAY + 1080)}  \* polar night: the next sunrise over a day ahead
\* a single config entry is set up
OnlyRoom(r) == \A q \in Rooms \ {r} : lifecycle[q] = "new"

InitEngine ==
  /\ InitControllers
  /\ now \in EngineTimes
  /\ sun_state \in EngineSuns(now)
  /\ sync_group = [r \in Rooms |-> ""]
  /\ detect_override = [r \in Rooms |-> FALSE]
  /\ entity_state = [e \in EnableEntities |-> "on"]
  /\ lights = [l \in AllLights |-> LightOn(128, 300)]

NextEngine ==
  \/ \E r \in Rooms : OnlyRoom(r) /\ Start(r, sun_state)
  \/ \E r \in Rooms : Tick(r, sun_state)
  \/ \E r \in Rooms, v \in BOOLEAN : SetSleepMode(r, v)
  \/ \E s \in EngineSuns(now) : SunChange(s)

SpecEngine == InitEngine /\ [][NextEngine]_vars

\* SpecEcho: room A alone with override detection on, its two lights on, the two
\* adaptation toggles, ticks, and lights that report either the command they were last
\* sent or their power-on values again.

\* what light l reports once it has carried out the last command sent to it: the fields of
\* that command (lines 693-704; the record of lines 710-713 holds their values), the
\* attributes the command did not contain keeping their reported value
EchoState(l) ==
  LET rec == last_applied[RoomOfLight(l)][l]
  IN LightOn(IF rec.brightness # None THEN rec.brightness ELSE lights[l].brightness,
             IF rec.color_temp # None /\ SupportsCt(l) THEN rec.color_temp
             ELSE lights[l].color_temp)

InitEcho ==
  /\ InitConfig({[r \in Rooms |-> "g"]}, {[r \in Rooms |-> TRUE]},
                {[e \in EnableEntities |-> "on"]})
  /\ lights = [l \in AllLights |-> IF SupportsCt(l) THEN LightOn(128, 300) ELSE LightOn(128, None)]

NextEcho ==
  \/ \E sun \in RoomSuns(now) : Start("A", sun)
  \/ \E sun \in RoomSuns(now) : Tick("A", sun)
  \/ \E v \in BOOLEAN : SetAdaptBrightness("A", v)
  \/ \E v \in BOOLEAN : SetAdaptColorTemp("A", v)
  \/ \E l \in DOMAIN last_applied["A"], parent \in BOOLEAN : LightEvent(l, EchoState(l), parent)
  \/ \E l \in SeqToSet(Lights("A")) : \E new \in AdaptStates(l) \ {LightOff} :
       LightEvent(l, new, FALSE)
  \/ \E t \in BagToSet(tasks) : RunOverrideTask(t)
  \/ \E sun \in RoomSuns(now) : ClearOverride("A", sun)

SpecEcho == InitEcho /\ [][NextEcho]_vars

\* ------------------------------------------------------------- properties
\* the override window of room r is armed and has not expired
Overridden(r) ==
  manual_override[r] /\ (manual_override_until[r] = None \/ now <= manual_override_until[r])
\* the step is a periodic tick of room r
TickStep(r) == ev'.op = "tick" /\ ev'.room = r
\* room r is a member of its group's list, and not the first one
Grouped(r) == sync_group[r] # "" /\ sync_group[r] \in DOMAIN sync_groups
Members(g) == SeqToSet(sync_groups[g].controllers)
NonFirstMember(r) ==
  /\ Grouped(r)
  /\ r \in Members(sync_group[r])
  /\ sync_groups[sync_group[r]].controllers[1] # r
SharedBrightness(r) == sync_groups[sync_group[r]].brightness
SharedColorTemp(r) == sync_groups[sync_group[r]].color_temp

\* C1: a tick of a room that is disabled, or whose override is armed and not expired,
\* dispatches no command and leaves the room's target, telemetry, LastApplied records and
\* the shared targets unchanged.
C1_TickNoop ==
  [][\A r \in Rooms :
       (TickStep(r) /\ (~enabled(r) \/ Overridden(r)))
         => /\ ev'.sent = {}
            /\ current_brightness'[r] = current_brightness[r]
            /\ current_color_temp'[r] = current_color_temp[r]
            /\ telemetry'[r] = telemetry[r]
            /\ last_applied'[r] = last_applied[r]
            /\ sync_groups' = sync_groups]_vars

\* C1 witness: a tick has just been skipped for an enabled room with an armed, unexpired
\* override, while the shared target differs from the room's own target.
C1_Witness ==
  /\ ev.op = "tick" /\ ev.read /\ ev.value
  /\ enabled(ev.room) /\ Overridden(ev.room)
  /\ Grouped(ev.room)
  /\ SharedBrightness(ev.room) > 0
  /\ SharedBrightness(ev.room) # current_brightness[ev.room]

\* C2: once a target with brightness > 0 is published, every tick of a later-joined room
\* (enabled, not overridden) copies the shared target exactly, without running the engine
\* (its telemetry stays) and without writing the shared target.
C2_FollowerCopies ==
  [][\A r \in Rooms :
       (/\ TickStep(r) /\ enabled(r) /\ ~Overridden(r)
        /\ NonFirstMember(r) /\ SharedBrightness(r) > 0)
         => /\ current_brightness'[r] = SharedBrightness(r)
            /\ current_color_temp'[r] = SharedColorTemp(r)
            /\ ~ev'.engine
            /\ telemetry'[r] = telemetry[r]
            /\ sync_groups' = sync_groups]_vars

\* C2 witness: B, second in the list after A, has just ticked as a follower and holds the
\* shared target.
C2_Witness ==
  /\ ev.op = "tick" /\ ev.room = "B" /\ ev.follow /\ ~ev.engine
  /\ Grouped("B") /\ sync_groups["g"].controllers = <<"A", "B">>
  /\ current_brightness["B"] = SharedBrightness("B")
  /\ current_color_temp["B"] = SharedColorTemp("B")
  /\ SharedBrightness("B") > 0

\* C3 as stated: no tick of a non-first member ever runs the engine or writes the shared
\* target.
C3_Original ==
  [][\A r \in Rooms :
       (TickStep(r) /\ NonFirstMember(r) /\ Len(sync_groups[sync_group[r]].controllers) >= 2)
         => (~ev'.engine /\ ~ev'.publish /\ sync_groups' = sync_groups)]_vars

\* C3 amended: a tick of a group member that runs the engine or writes the shared target
\* is a tick of the first member, or a tick taken while the shared brightness is still 0.
C3_LeaderComputes ==
  [][\A r \in Rooms :
       (TickStep(r) /\ Grouped(r) /\ r \in Members(sync_group[r])
        /\ (ev'.engine \/ ev'.publish \/ sync_groups' # sync_groups))
         => (sync_groups[sync_group[r]].controllers[1] = r \/ SharedBrightness(r) = 0)]_vars

\* C3 witness: the leader of a two-member group has just ticked, computed and published.
C3_Witness ==
  /\ ev.op = "tick" /\ ev.engine /\ ev.publish
  /\ Grouped(ev.room)
  /\ Len(sync_groups[sync_group[ev.room]].controllers) >= 2
  /\ sync_groups[sync_group[ev.room]].controllers[1] = ev.room
  /\ SharedBrightness(ev.room) = current_brightness[ev.room]

\* C4: the follow decision of a tick that gets past the enabled/override test is true iff
\* the room is not the first member and the shared brightness is > 0; with a shared
\* brightness of 0 the room computes for itself.
C4_FollowDecision ==
  [][\A r \in Rooms :
       (TickStep(r) /\ enabled(r) /\ ~Overridden(r) /\ Grouped(r) /\ r \in Members(sync_group[r]))
         => /\ ev'.follow <=> (sync_groups[sync_group[r]].controllers[1] # r
                               /\ SharedBrightness(r) > 0)
            /\ ev'.engine <=> ~ev'.follow
            /\ SharedBrightness(r) = 0 => (ev'.engine /\ ~ev'.follow)]_vars

\* C4 witness: a non-first member has just ticked while nothing was published, so it
\* computed for itself (and published).
C4_Witness ==
  /\ ev.op = "tick" /\ ev.engine /\ ~ev.follow
  /\ NonFirstMember(ev.room)
  /\ current_brightness[sync_groups[sync_group[ev.room]].controllers[1]] = 0

\* C5: the leader of a non-empty group is the earliest-joined of its current members, and
\* the leader changes only in a step in which the current leader leaves.
EarliestJoined(g) ==
  CHOOSE r \in Members(g) : \A q \in Members(g) : joined_at[r] <= joined_at[q]
LeaderIsEarliest ==
  \A g \in DOMAIN sync_groups :
    sync_groups[g].controllers # <<>> => sync_groups[g].controllers[1] = EarliestJoined(g)
LeaderSticky ==
  \A g \in DOMAIN sync_groups :
    (/\ g \in DOMAIN sync_groups'
     /\ sync_groups[g].controllers # <<>>
     /\ sync_groups'[g].controllers # <<>>
     /\ sync_groups'[g].controllers[1] # sync_groups[g].controllers[1])
      => /\ sync_groups[g].controllers[1] \notin SeqToSet(sync_groups'[g].controllers)
         /\ ev'.op = "stop" /\ ev'.room = sync_groups[g].controllers[1]
C5_Leadership == [](LeaderIsEarliest) /\ [][LeaderSticky]_vars

\* C5 witness: the first leader has left a group that still has two members, and the
\* earlier-joined of them leads.
C5_Witness ==
  /\ "g" \in DOMAIN sync_groups
  /\ Len(sync_groups["g"].controllers) = 2
  /\ \E r \in Rooms : lifecycle[r] = "stopped" /\ joined_at[r] = 1
  /\ joined_at[sync_groups["g"].controllers[1]] = 2
  /\ joined_at[sync_groups["g"].controllers[2]] = 3

\* C6: with an override set for d minutes at T0 and no set or clear since, a read of the
\* flag after T0 + d returns false and leaves the window cleared, a read at or before
\* T0 + d returns true and leaves the window as it is; the window is touched by nothing
\* but a set, a clear or a read (the clock alone never clears it).
ReadStep(r) == ev'.room = r /\ ev'.read
C6_LazyExpiry ==
  [][\A r \in Rooms :
       /\ (ReadStep(r) /\ last_set[r] # <<>> /\ ev'.op # "clear_override")
            => IF now > last_set[r][1] + last_set[r][2]
               THEN /\ ~ev'.value
                    /\ ~manual_override'[r]
                    /\ manual_override_until'[r] = None
               ELSE /\ ev'.value
                    /\ manual_override'[r]
                    /\ manual_override_until'[r] = last_set[r][1] + last_set[r][2]
                    /\ manual_override_until'[r] = manual_override_until[r]
       /\ (manual_override'[r] # manual_override[r]
           \/ manual_override_until'[r] # manual_override_until[r])
            => /\ ev'.room = r
               /\ ev'.op \in {"set_override", "set_override_task", "clear_override"} \/ ev'.read
               /\ now' = now]_vars

\* C6 witness: a poll of the flag after the expiry time has just returned false and
\* cleared the window set earlier.
C6_Witness ==
  /\ ev.op = "read_override" /\ ~ev.value
  /\ last_set[ev.room] # <<>>
  /\ now > last_set[ev.room][1] + last_set[ev.room][2]
  /\ ~manual_override[ev.room]
  /\ manual_override_until[ev.room] = None

\* C7: setOverride(d) at time now leaves armed = true and expiresAt = now + d, whether
\* called by the user or by the detection's task and whatever window was stored before;
\* it dispatches nothing and changes no other state of the room.
SetStep(r) == ev'.room = r /\ ev'.op \in {"set_override", "set_override_task"}
C7_SetOverride ==
  [][\A r \in Rooms :
       SetStep(r)
         => /\ manual_override'[r]
            /\ manual_override_until'[r] = now + ev'.duration
            /\ ev'.sent = {}
            /\ UNCHANGED <<internal_enabled, sleep_mode, adapt_brightness, adapt_color_temp,
                           current_brightness, current_color_temp, telemetry, last_applied,
                           sync_groups, lights, lifecycle>>]_vars

\* C7 witness: the detection's task has just armed the override for the configured
\* timeout.
C7_Witness ==
  /\ ev.op = "set_override_task"
  /\ manual_override[ev.room]
  /\ manual_override_until[ev.room] = now + OverrideTimeout(ev.room)
  /\ last_applied[ev.room] # EmptyDict

\* C8: clearOverride leaves armed = false and expiresAt = none and, in the same step,
\* recomputes the target with the engine and, for an enabled room, sends it to every light
\* of the room that is on and records it.
ClearStep(r) == ev'.room = r /\ ev'.op = "clear_override"
C8_ClearOverride ==
  [][\A r \in Rooms :
       ClearStep(r)
         => /\ ~manual_override'[r]
            /\ manual_override_until'[r] = None
            /\ \E sun \in RoomSuns(now) :
                 /\ current_brightness'[r] = calculate_values(r, now, sun, sleep_mode[r]).brightness
                 /\ current_color_temp'[r] = calculate_values(r, now, sun, sleep_mode[r]).color_temp
            /\ enabled(r) =>
                 \A l \in SeqToSet(Lights(r)) :
                   lights[l].state = STATE_ON
                     => /\ \E c \in ev'.sent :
                             /\ c.entity_id = l
                             /\ c.brightness = (current_brightness'[r] * 255) \div 100
                             /\ c.color_temp \in {None, 1000000 \div current_color_temp'[r]}
                        /\ l \in DOMAIN last_applied'[r]
                        /\ last_applied'[r][l].brightness = (current_brightness'[r] * 255) \div 100]_vars

\* C8 witness: a clear has just run for an enabled room and sent a command.
C8_Witness ==
  /\ ev.op = "clear_override" /\ ev.sent # {}
  /\ enabled(ev.room)
  /\ ~manual_override[ev.room] /\ manual_override_until[ev.room] = None
  /\ last_set[ev.room] = <<>>
  /\ \E c \in ev.sent : c.brightness = (current_brightness[ev.room] * 255) \div 100

\* C9: for an on-to-on observation with a changed brightness or color-temp that the
\* callback does not ignore and whose light has a LastApplied record, the override task is
\* created for the configured timeout iff NOT (|brightness - LastApplied| < 5 AND
\* |color-temp - LastApplied| < 10) (a missing value counts as 0); the task arms the
\* override for that timeout.
LightStep(r, l) == ev'.op = "light_changed" /\ ev'.room = r /\ ev'.light = l
OnToOnChange(l) ==
  /\ lights[l].state = STATE_ON /\ lights'[l].state = STATE_ON
  /\ (lights'[l].brightness # lights[l].brightness \/ lights'[l].color_temp # lights[l].color_temp)
WithinTolerance(obs, rec) ==
  /\ Abs(OrZero(obs.brightness) - OrZero(rec.brightness)) < 5
  /\ Abs(OrZero(obs.color_temp) - OrZero(rec.color_temp)) < 10
C9_ArmingRule ==
  [][\A r \in Rooms :
       /\ \A l \in SeqToSet(Lights(r)) :
            (/\ LightStep(r, l) /\ lifecycle[r] = "running" /\ enabled(r)
             /\ detect_override[r] /\ ~ev'.parent
             /\ OnToOnChange(l) /\ l \in DOMAIN last_applied[r])
              => /\ (ev'.scheduled = "override") <=> ~WithinTolerance(lights'[l], last_applied[r][l])
                 /\ ev'.scheduled = "override"
                      => /\ ev'.duration = OverrideTimeout(r)
                         /\ BagIn(OverrideTask(r, OverrideTimeout(r)), tasks')
       /\ (ev'.op = "set_override_task" /\ ev'.room = r)
            => /\ manual_override'[r]
               /\ manual_override_until'[r] = now + OverrideTimeout(r)]_vars

\* C9 witness: an observed brightness exactly 5 away from the LastApplied brightness, with
\* the color-temp matching, has just created the override task.
C9_Witness ==
  /\ ev.op = "light_changed" /\ ev.scheduled = "override"
  /\ ev.light \in DOMAIN last_applied[ev.room]
  /\ Abs(OrZero(lights[ev.light].brightness) - OrZero(last_applied[ev.room][ev.light].brightness)) = 5
  /\ OrZero(lights[ev.light].color_temp) = OrZero(last_applied[ev.room][ev.light].color_temp)

\* C10: an observation creates no override task (and arms nothing) when detection is
\* disabled, when there is no previous state, when the new state carries a parent
\* context, or when the light was not on both before and after.
C10_Ignored ==
  [][\A r \in Rooms : \A l \in SeqToSet(Lights(r)) :
       (/\ LightStep(r, l)
        /\ \/ ~detect_override[r]
           \/ lights[l].state = "none"
           \/ ev'.parent
           \/ ~(lights[l].state = STATE_ON /\ lights'[l].state = STATE_ON))
         => /\ ev'.scheduled # "override"
            /\ \A t \in BagToSet(tasks') : t.kind = "override" => BagIn(t, tasks)
            /\ UNCHANGED <<manual_override, manual_override_until>>]_vars

\* C10 witness: an on-to-on change far from the LastApplied record, carrying a parent
\* context, has just been observed by an enabled room with detection on, and no task was
\* created.
C10_Witness ==
  /\ ev.op = "light_changed" /\ ev.parent /\ ev.scheduled = "none"
  /\ lifecycle[ev.room] = "running" /\ enabled(ev.room) /\ detect_override[ev.room]
  /\ ev.light \in DOMAIN last_applied[ev.room]
  /\ lights[ev.light].state = STATE_ON
  /\ Abs(OrZero(lights[ev.light].brightness) - OrZero(last_applied[ev.room][ev.light].brightness)) >= 5

\* C11: once the detection has armed the override, a tick taken at or before the expiry
\* time is a no-op; the first tick of the enabled room taken strictly after the expiry time
\* clears the window itself (no explicit clear), recomputes or follows, and sends the target
\* to every light that is on; with the interval timer firing, an expired window therefore
\* leads to a tick that adapts again (unless the room is disabled or the override re-armed).
ExpiredWindow(r) ==
  /\ lifecycle[r] = "running" /\ manual_override[r]
  /\ manual_override_until[r] # None /\ now > manual_override_until[r]
ResumedTick(r) == ev.op = "tick" /\ ev.room = r /\ (ev.engine \/ ev.follow)
TickAfterArming(r) ==
  (TickStep(r) /\ manual_override[r] /\ last_set[r] # <<>>)
    => IF now <= last_set[r][1] + last_set[r][2]
       THEN /\ ~ev'.engine /\ ~ev'.follow /\ ev'.sent = {}
            /\ manual_override'[r]
            /\ current_brightness'[r] = current_brightness[r]
            /\ current_color_temp'[r] = current_color_temp[r]
            /\ last_applied'[r] = last_applied[r]
       ELSE enabled(r)
              => /\ ev'.engine \/ ev'.follow
                 /\ ~manual_override'[r] /\ manual_override_until'[r] = None
                 /\ \A l \in SeqToSet(Lights(r)) :
                      lights[l].state = STATE_ON => \E c \in ev'.sent : c.entity_id = l
C11_Resumes ==
  /\ [][\A r \in Rooms : TickAfterArming(r)]_vars
  /\ ExpiredWindow("A") ~> (ResumedTick("A") \/ Overridden("A") \/ ~enabled("A"))

\* C11 witness: the detection armed the override, nothing cleared it, the clock passed the
\* expiry time and a tick has just recomputed and sent the target again.
C11_Witness ==
  /\ ev.op = "tick" /\ ev.room = "A" /\ ev.engine /\ ev.read /\ ~ev.value /\ ev.sent # {}
  /\ last_set["A"] # <<>>
  /\ last_set["A"][2] = OverrideTimeout("A")
  /\ now > last_set["A"][1] + last_set["A"][2]
  /\ ~manual_override["A"] /\ manual_override_until["A"] = None

\* C12: a forced update of an enabled room stores the engine's target, writes it to the
\* group's shared target if the room is grouped, and sends it to every light that is on,
\* also while the override is armed and unexpired; the override window stays as it was.
ForceStep(r) == ev'.op = "force_update" /\ ev'.room = r
C12_ForceUpdate ==
  [][\A r \in Rooms :
       (ForceStep(r) /\ enabled(r))
         => /\ \E sun \in RoomSuns(now) :
                 /\ current_brightness'[r] = calculate_values(r, now, sun, sleep_mode[r]).brightness
                 /\ current_color_temp'[r] = calculate_values(r, now, sun, sleep_mode[r]).color_temp
            /\ ev'.engine
            /\ Grouped(r) => /\ sync_groups'[sync_group[r]].brightness = current_brightness'[r]
                             /\ sync_groups'[sync_group[r]].color_temp = current_color_temp'[r]
            /\ \A l \in SeqToSet(Lights(r)) :
                 lights[l].state = STATE_ON
                   => \E c \in ev'.sent :
                        /\ c.entity_id = l
                        /\ c.brightness = (current_brightness'[r] * 255) \div 100
            /\ manual_override'[r] = manual_override[r]
            /\ manual_override_until'[r] = manual_override_until[r]]_vars

\* C12 witness: B, a non-first member with an armed and unexpired override, has just been
\* forced: its sleep target replaced the shared target the leader published and went out
\* to its light, and the window is still armed.
C12_Witness ==
  /\ ev.op = "force_update" /\ ev.room = "B" /\ ev.publish /\ ev.sent # {}
  /\ enabled("B") /\ Overridden("B") /\ NonFirstMember("B")
  /\ SharedBrightness("B") = SleepBrightness("B")
  /\ current_brightness["B"] = SleepBrightness("B")
  /\ current_brightness["A"] > SleepBrightness("B")

\* C13: an event of a trigger entity schedules a debounced apply iff the room is enabled,
\* the new value is one of on/home/playing/open and the old value is absent or none of
\* these; the task, when it fires for an enabled room, sends a command to every configured
\* light that is on, with transition 0 iff the instant-transition flag is set.
TriggerStep(r, e) == ev'.op = "trigger_changed" /\ ev'.room = r /\ ev'.light = e
IsActive(v) == v \in {"on", "home", "playing", "open"}
C13_TriggerSchedules ==
  [][\A r \in Rooms :
       /\ \A e \in SeqToSet(TriggerEntities(r)) :
            (TriggerStep(r, e) /\ lifecycle[r] = "running")
              => /\ (ev'.scheduled = "apply")
                      <=> (enabled(r) /\ IsActive(trigger_state'[e]) /\ ~IsActive(trigger_state[e]))
                 /\ tasks' = IF ev'.scheduled = "apply"
                             THEN tasks (+) SetToBag({ApplyTask(r, {})}) ELSE tasks
                 /\ (IsActive(trigger_state[e]) /\ IsActive(trigger_state'[e])) => tasks' = tasks
       /\ (ev'.op = "delayed_apply" /\ ev'.room = r /\ ev'.ids = {} /\ enabled(r))
            => \A l \in SeqToSet(Lights(r)) :
                 lights[l].state = STATE_ON
                   => \E c \in ev'.sent :
                        /\ c.entity_id = l
                        /\ c.transition = IF InstantTransition(r) THEN 0 ELSE Transition(r)]_vars

\* C13 witness: the task scheduled by a trigger event has just fired and sent an instant
\* command to both lights of the room.
C13_Witness ==
  /\ ev.op = "delayed_apply" /\ ev.room = "A" /\ ev.ids = {}
  /\ trigger_state["binary_sensor.a"] = "home"
  /\ {c.entity_id : c \in ev.sent} = {"a1", "a2"}
  /\ \A c \in ev.sent : c.transition = 0

\* C14: a light of an enabled room going from not-on (or no state) to on schedules exactly
\* one debounced apply, for that light alone; when it fires, only that light can get a
\* command and only its LastApplied record can change.
C14_SingleLight ==
  [][\A r \in Rooms : \A l \in SeqToSet(Lights(r)) :
       /\ (/\ LightStep(r, l) /\ lifecycle[r] = "running" /\ enabled(r)
           /\ lights'[l].state = STATE_ON /\ lights[l].state # STATE_ON)
            => /\ ev'.scheduled = "apply"
               /\ tasks' = tasks (+) SetToBag({ApplyTask(r, {l})})
       /\ (ev'.op = "delayed_apply" /\ ev'.room = r /\ ev'.ids = {l})
            => /\ \A c \in ev'.sent : c.entity_id = l
               /\ \A k \in AllLights \ {l} :
                    /\ (k \in DOMAIN last_applied'[r]) <=> (k \in DOMAIN last_applied[r])
                    /\ k \in DOMAIN last_applied[r] => last_applied'[r][k] = last_applied[r][k]]_vars

\* C14 witness: both lights turned on one after the other; the task of a1 has just fired
\* and sent one command, to a1, while a2 is on, holds no record and its task still waits.
C14_Witness ==
  /\ ev.op = "delayed_apply" /\ ev.room = "A" /\ ev.ids = {"a1"}
  /\ {c.entity_id : c \in ev.sent} = {"a1"}
  /\ lights["a2"].state = STATE_ON
  /\ "a2" \notin DOMAIN last_applied["A"]
  /\ BagIn(ApplyTask("A", {"a2"}), tasks)

\* C15: whatever the path into apply, a light that has no state or is not on gets no
\* command (not even one that raises) and its LastApplied record is neither written nor
\* created.
C15_OnlyOnLights ==
  [][\A r \in Rooms : \A l \in AllLights :
       lights[l].state # STATE_ON
         => /\ \A c \in ev'.sent : c.entity_id # l
            /\ l \notin ev'.failed
            /\ (l \in DOMAIN last_applied'[r]) <=> (l \in DOMAIN last_applied[r])
            /\ l \in DOMAIN last_applied[r] => last_applied'[r][l] = last_applied[r][l]]_vars

\* C15 witness: the apply service has just been called for all lights while a1 has no
\* state and a2 is on: one command went out, to a2, and a1 holds no record.
C15_Witness ==
  /\ ev.op = "apply_service" /\ ev.ids = {}
  /\ lights["a1"].state = "none" /\ lights["a2"].state = STATE_ON
  /\ {c.entity_id : c \in ev.sent} = {"a2"}
  /\ "a1" \notin DOMAIN last_applied["A"]

\* C16: a dispatched command has a brightness field iff brightness adaptation is on, and a
\* color-temperature field iff color adaptation is on and the light supports color
\* temperature; no command carries neither field, so a light that is on and would get
\* neither gets no command.
C16_CommandFields ==
  [][\A r \in Rooms :
       ev'.room = r
         => /\ \A c \in ev'.sent :
                 /\ (c.brightness # None) <=> adapt_brightness[r]
                 /\ (c.color_temp # None) <=> (adapt_color_temp[r] /\ SupportsCt(c.entity_id))
                 /\ c.brightness # None \/ c.color_temp # None
            /\ \A l \in SeqToSet(Lights(r)) :
                 (~adapt_brightness[r] /\ ~(adapt_color_temp[r] /\ SupportsCt(l)))
                   => \A c \in ev'.sent : c.entity_id # l]_vars

\* C16 witness: with brightness adaptation off and color adaptation on, a tick has just
\* sent a color-only command to a1 and nothing to a2, which is on but has no color
\* temperature.
C16_Witness ==
  /\ ev.op = "tick" /\ ev.room = "A"
  /\ ~adapt_brightness["A"] /\ adapt_color_temp["A"]
  /\ lights["a1"].state = STATE_ON /\ lights["a2"].state = STATE_ON
  /\ {c.entity_id : c \in ev.sent} = {"a1"}
  /\ \A c \in ev.sent : c.brightness = None /\ c.color_temp # None

\* C17 as stated: after a command is sent to a light, the light's LastApplied record
\* equals the command field for field, a field that was not included being none.
C17_RecordEqualsCommand ==
  [][\A r \in Rooms : \A c \in ev'.sent :
       ev'.room = r
         => /\ c.entity_id \in DOMAIN last_applied'[r]
            /\ last_applied'[r][c.entity_id].brightness = c.brightness
            /\ last_applied'[r][c.entity_id].color_temp = c.color_temp]_vars

\* C19 as stated: an apply that takes the stored target while the stored color temperature
\* is 0 sends no color-temperature field, and the mired sensor then reports 370.
ApplyFromStored(r) == ev'.room = r /\ ev'.op \in {"delayed_apply", "apply_service"}
C19_NoColorAtZero ==
  [][\A r \in Rooms :
       (ApplyFromStored(r) /\ current_color_temp[r] = 0 /\ ev'.sent # {})
         => /\ \A c \in ev'.sent : c.color_temp = None
            /\ ColorTempMiredsSensor(current_color_temp'[r]) = NEUTRAL_MIREDS]_vars

\* C20: when the service call of a light raises, the same apply still sends its command
\* to every other targeted light that is on, and the handler that called apply completes
\* (a debounced task is gone from the pending tasks, a tick has stored its target).
C20_FailureContained ==
  [][\A r \in Rooms :
       (ev'.room = r /\ ev'.failed # {})
         => /\ \A l \in (IF ev'.ids = {} THEN SeqToSet(Lights(r)) ELSE ev'.ids) \ ev'.failed :
                 lights[l].state = STATE_ON => \E c \in ev'.sent : c.entity_id = l
            /\ ev'.op = "delayed_apply"
                 => BagCardinality(tasks') = BagCardinality(tasks) - 1
            /\ ev'.op = "tick" => current_brightness'[r] > 0]_vars

\* C20 witness: during a tick the call for a1 raised and a2, next in the list, still got
\* its command.
C20_Witness ==
  /\ ev.op = "tick" /\ ev.room = "A" /\ ev.failed = {"a1"}
  /\ {c.entity_id : c \in ev.sent} = {"a2"}
  /\ lights["a1"].state = STATE_ON /\ lights["a2"].state = STATE_ON

\* C18 as stated: the brightness sent is round(pct / 100 * 255) and the mireds sent are
\* round(1000000 / K), to the nearest integer.
RoundDiv(n, d) == (2 * n + d) \div (2 * d)
UpdateStep(r) == ev'.room = r /\ ev'.op \in {"start", "tick"}
C18_Rounds ==
  [][\A r \in Rooms : \A c \in ev'.sent :
       UpdateStep(r)
         => /\ c.brightness = RoundDiv(current_brightness'[r] * 255, 100)
            /\ c.color_temp # None => c.color_temp = RoundDiv(1000000, current_color_temp'[r])]_vars

\* C18 amended: the brightness sent is pct * 255 / 100 and the mireds sent are 1000000 / K,
\* both truncated to an integer.
C18_Truncates ==
  [][\A r \in Rooms : \A c \in ev'.sent :
       UpdateStep(r)
         => /\ c.brightness = (current_brightness'[r] * 255) \div 100
            /\ c.color_temp # None => c.color_temp = 1000000 \div current_color_temp'[r]
            /\ c.brightness \in 0..255]_vars

\* C18 witness: B has just sent the target 21 % / 3850 K as 53 / 259, where rounding to the
\* nearest integer would give 54 / 260.
C18_Witness ==
  /\ ev.op = "tick" /\ ev.room = "B"
  /\ current_brightness["B"] = 21 /\ current_color_temp["B"] = 3850
  /\ \E c \in ev.sent : c.entity_id = "b1" /\ c.brightness = 53 /\ c.color_temp = 259

\* C25: while sleep mode is on, a tick that runs the engine stores exactly the configured
\* sleep brightness and sleep color temperature, whatever the sun entity holds and whatever
\* modes the room selects; the circadian factor, day progress and elevation telemetry are
\* still the ones the engine derives from the sun data.
SunData(r) == get_sun_data(r, now, sun_state)
EngineTick(r) == TickStep(r) /\ ev'.engine
C25_SleepValues ==
  [][\A r \in Rooms :
       (EngineTick(r) /\ sleep_mode[r])
         => /\ current_brightness'[r] = SleepBrightness(r)
            /\ current_color_temp'[r] = SleepColorTemp(r)
            /\ telemetry'[r].sun_elevation = SunData(r)[3]
            /\ telemetry'[r] = Telemetry(calculate_factors(SunData(r)[1], SunData(r)[2],
                                                           SunData(r)[3], now), SunData(r)[3])]_vars

\* C25 witness: room B, whose brightness follows the elevation, has just ticked in sleep
\* mode with the sun at 60 degrees at half of the day: the target is the sleep pair while
\* the telemetry shows a circadian factor of 1.
C25_Witness ==
  /\ ev.op = "tick" /\ ev.room = "B" /\ ev.engine /\ sleep_mode["B"]
  /\ sun_state.present /\ sun_state.elevation = 60
  /\ current_brightness["B"] = DEFAULT_SLEEP_BRIGHTNESS
  /\ current_color_temp["B"] = DEFAULT_SLEEP_COLOR_TEMP
  /\ telemetry["B"] = [circadian_factor |-> 1000, day_progress |-> 50, sun_elevation |-> 60]

\* C26: a tick that runs the engine with an elevation of 0 or less stores a circadian
\* factor of 0 and, outside sleep mode, the minimum brightness and the minimum color
\* temperature in every mode (so the solar and linear factors are 0 as well); the day
\* progress stored is 0 if now is before the sunrise reference and 100 % otherwise.
SunDown(r) == SunData(r)[3] <= 0
BeforeSunrise(r) == SunData(r)[1] # None /\ now < SunData(r)[1]
C26_SunDown ==
  [][\A r \in Rooms :
       (EngineTick(r) /\ SunDown(r))
         => /\ telemetry'[r].circadian_factor = 0
            /\ ~sleep_mode[r] => /\ current_brightness'[r] = MinBrightness(r)
                                 /\ current_color_temp'[r] = MinColorTemp(r)
            /\ telemetry'[r].day_progress = IF BeforeSunrise(r) THEN 0 ELSE 100]_vars

\* C26 witness: room C (linear brightness, solar color) has just ticked with the sun on the
\* horizon and its sunrise reference still ahead: minimum target, day progress 0.
C26_Witness ==
  /\ ev.op = "tick" /\ ev.room = "C" /\ ev.engine /\ ~sleep_mode["C"]
  /\ sun_state.present /\ sun_state.elevation = 0 /\ BeforeSunrise("C")
  /\ current_brightness["C"] = DEFAULT_MIN_BRIGHTNESS
  /\ current_color_temp["C"] = DEFAULT_MIN_COLOR_TEMP
  /\ telemetry["C"].day_progress = 0

\* C27: when the sun entity is present, the references a tick works with are obtained in
\* this order: next_rising goes back one day iff it is later than now; then next_setting
\* goes back one day iff it is later than now and the elevation is 0 or less, otherwise it
\* goes forward one day iff it is earlier than the moved sunrise; the room's offsets are
\* added to the results, and the elevation is passed on unchanged.
MovedSunrise == sun_state.next_rising - (IF sun_state.next_rising > now THEN DAY ELSE 0)
SunsetMovedBack == sun_state.next_setting > now /\ sun_state.elevation <= 0
SunsetMovedForward ==
  /\ ~SunsetMovedBack
  /\ sun_state.next_rising # None
  /\ sun_state.next_setting < MovedSunrise
C27_Normalization ==
  [][\A r \in Rooms :
       (EngineTick(r) /\ sun_state.present)
         => /\ SunData(r)[3] = sun_state.elevation
            /\ IF sun_state.next_rising = None THEN SunData(r)[1] = None
               ELSE SunData(r)[1] = MovedSunrise + SunriseOffset(r)
            /\ IF sun_state.next_setting = None THEN SunData(r)[2] = None
               ELSE SunData(r)[2] = sun_state.next_setting + SunsetOffset(r)
                      + (IF SunsetMovedBack THEN 0 - DAY ELSE IF SunsetMovedForward THEN DAY ELSE 0)
            /\ sun_state.elevation <= 0
                 => telemetry'[r].day_progress =
                      IF sun_state.next_rising # None /\ now < MovedSunrise + SunriseOffset(r)
                      THEN 0 ELSE 100]_vars

\* C27 witness: room C, whose sunrise offset is +60, has just ticked with the sun down and a
\* next_rising that lies 30 minutes back: the timestamp was not moved, the offset was
\* added afterwards and put the reference ahead of now, so the day progress stored is 0.
C27_Witness ==
  /\ ev.op = "tick" /\ ev.room = "C" /\ ev.engine
  /\ sun_state = SunState(-5, now - 30, now + 690)
  /\ SunData("C") = <<now + 30, now + 690 - DAY - 60, -5>>
  /\ telemetry["C"].day_progress = 0

\* C28 as stated: with zero offsets and both timestamps present, the references a tick
\* works with satisfy sunrise < sunset, whatever the sun entity holds.
ZeroOffsets(r) == SunriseOffset(r) = 0 /\ SunsetOffset(r) = 0
BothPresent == sun_state.present /\ sun_state.next_rising # None /\ sun_state.next_setting # None
C28_Ordered ==
  [][\A r \in Rooms :
       (EngineTick(r) /\ ZeroOffsets(r) /\ BothPresent) => SunData(r)[1] < SunData(r)[2]]_vars

\* C28 amended: with zero offsets and both timestamps lying within the coming day, the
\* references satisfy sunrise <= now < sunset if the elevation is above 0; if the elevation
\* is 0 or less both references are at or before now, and sunrise < sunset holds exactly
\* when next_rising is earlier than next_setting.
FreshSun ==
  /\ BothPresent
  /\ now < sun_state.next_rising /\ sun_state.next_rising <= now + DAY
  /\ now < sun_state.next_setting /\ sun_state.next_setting <= now + DAY
C28_OrderedWhenFresh ==
  [][\A r \in Rooms :
       (EngineTick(r) /\ ZeroOffsets(r) /\ FreshSun)
         => IF sun_state.elevation > 0
            THEN SunData(r)[1] <= now /\ now < SunData(r)[2]
            ELSE /\ SunData(r)[1] <= now /\ SunData(r)[2] <= now
                 /\ (SunData(r)[1] < SunData(r)[2])
                      <=> (sun_state.next_rising < sun_state.next_setting)]_vars

\* C28 witness: room A has just ticked half an hour after sunrise with the sun still at 0
\* degrees: the sunrise reference is 30 minutes back and the sunset reference is
\* yesterday's, twelve hours before it.
C28_Witness ==
  /\ ev.op = "tick" /\ ev.room = "A" /\ ev.engine
  /\ sun_state = SunState(0, now + 1410, now + 690)
  /\ FreshSun
  /\ SunData("A") = <<now - 30, now - 750, 0>>

\* C29 as stated: when the sun entity is missing, a tick works with sunrise 06:00 and
\* sunset 18:00 of the current day, and with an elevation of +45 exactly when now lies
\* within 06:00-18:00 and of -10 at every other time of the day.
Midnight == now - (now % DAY)
InFallbackWindow == Midnight + 6 * 60 <= now /\ now <= Midnight + 18 * 60
C29_FallbackWindow ==
  [][\A r \in Rooms :
       (EngineTick(r) /\ ~sun_state.present)
         => /\ SunData(r)[1] = Midnight + 6 * 60
            /\ SunData(r)[2] = Midnight + 18 * 60
            /\ telemetry'[r].sun_elevation = IF InFallbackWindow THEN 45 ELSE -10]_vars

\* C30 as stated: when a sleep number is set while sleep mode is on, the forced update
\* stores the value just set as the room's current brightness (color temperature), sends
\* it to the lights that are on and writes it to the group's shared target.
NumberStep(r, which) == ForceStep(r) /\ ev'.light = which
C30_NumberApplied ==
  [][\A r \in Rooms :
       /\ (NumberStep(r, "sleep_brightness") /\ sleep_mode[r] /\ enabled(r))
            => /\ current_brightness'[r] = ev'.number
               /\ \A c \in ev'.sent : c.brightness = (ev'.number * 255) \div 100
               /\ Grouped(r) => sync_groups'[sync_group[r]].brightness = ev'.number
       /\ (NumberStep(r, "sleep_color_temp") /\ sleep_mode[r] /\ enabled(r))
            => /\ current_color_temp'[r] = ev'.number
               /\ \A c \in ev'.sent : c.color_temp # None => c.color_temp = 1000000 \div ev'.number
               /\ Grouped(r) => sync_groups'[sync_group[r]].color_temp = ev'.number]_vars

\* C21 as stated: a light's LastApplied record is never removed, and it is created or
\* changed only by a step that dispatches a command to that light; in particular an apply
\* whose service call raises for the light leaves the record as it was.
HasRecord(la, l) == l \in DOMAIN la
RecordWritten(r, l) ==
  \/ ~HasRecord(last_applied[r], l) /\ HasRecord(last_applied'[r], l)
  \/ /\ HasRecord(last_applied[r], l) /\ HasRecord(last_applied'[r], l)
     /\ last_applied'[r][l] # last_applied[r][l]
C21_OnlyOnDispatch ==
  [][\A r \in Rooms : \A l \in AllLights :
       /\ HasRecord(last_applied[r], l) => HasRecord(last_applied'[r], l)
       /\ RecordWritten(r, l) => (ev'.room = r /\ \E c \in ev'.sent : c.entity_id = l)]_vars

\* C22: when a step that calls apply is followed at once by another call of apply for the
\* same room with the same arguments, the target, settings and light states being what the
\* first call left and the same service calls raising, the second call dispatches exactly
\* the commands of the first and leaves every LastApplied record as the first wrote it.
CallsApply(e) ==
  e.op \in {"start", "tick", "clear_override", "force_update", "apply_service", "delayed_apply"}
InstantCall(e) == e.op = "delayed_apply" /\ InstantTransition(e.room)
SameApplyAgain ==
  /\ CallsApply(ev) /\ CallsApply(ev')
  /\ ev'.room = ev.room /\ ev'.ids = ev.ids /\ ev'.failed = ev.failed
  /\ InstantCall(ev') <=> InstantCall(ev)
  /\ current_brightness' = current_brightness /\ current_color_temp' = current_color_temp
C22_Idempotent ==
  [][SameApplyAgain => (ev'.sent = ev.sent /\ last_applied' = last_applied)]_vars

\* C22 witness: the apply service has just run for all lights of room A with both lights
\* on, after an earlier apply had already recorded both: two commands went out and the
\* records hold the values sent.
C22_Witness ==
  /\ ev.op = "apply_service" /\ ev.room = "A" /\ ev.ids = {} /\ ev.failed = {}
  /\ {c.entity_id : c \in ev.sent} = {"a1", "a2"}
  /\ \A c \in ev.sent : c.brightness = 51 /\ c.transition = DEFAULT_TRANSITION
  /\ DOMAIN last_applied["A"] = {"a1", "a2"}
  /\ \A l \in {"a1", "a2"} : last_applied["A"][l] = [brightness |-> 51, color_temp |-> 454]

\* C23 as stated: with a debounced apply of a trigger and one of a light in flight for the
\* same room, each task that fires is taken off the pending tasks (it calls apply once),
\* and after its apply the LastApplied record of every light it sent a command to equals
\* that command field for field, the records of the other lights being left as they were.
TwoInFlight(r) ==
  /\ BagIn(ApplyTask(r, {}), tasks)
  /\ \E l \in SeqToSet(Lights(r)) : BagIn(ApplyTask(r, {l}), tasks)
DebouncedStep(r) == ev'.op = "delayed_apply" /\ ev'.room = r
C23_DebouncedRecords ==
  [][\A r \in Rooms :
       (DebouncedStep(r) /\ (TwoInFlight(r) \/ (ev.op = "delayed_apply" /\ ev.room = r)))
         => /\ BagIn(ApplyTask(r, ev'.ids), tasks)
            /\ tasks' = tasks (-) SetToBag({ApplyTask(r, ev'.ids)})
            /\ \A c \in ev'.sent :
                 /\ HasRecord(last_applied'[r], c.entity_id)
                 /\ last_applied'[r][c.entity_id] =
                      [brightness |-> c.brightness, color_temp |-> c.color_temp]
            /\ \A l \in AllLights :
                 (\A c \in ev'.sent : c.entity_id # l) => ~RecordWritten(r, l)]_vars

\* C24 as stated: once a room is stopped it is in no member list, none of its ticks,
\* trigger handlers or light handlers runs (no task is created for it), and a command can
\* go out for it only from a debounced apply that was pending, which is then taken off the
\* pending tasks and dispatches only if the room is enabled.
Stopped(r) == lifecycle[r] \in {"stopped", "unloaded"}
InNoMemberList(r) ==
  \A g \in DOMAIN sync_groups' : r \notin SeqToSet(sync_groups'[g].controllers)
NoHandlerRuns(r) ==
  /\ \A t \in BagToSet(tasks') : t.room = r => CopiesIn(t, tasks') <= CopiesIn(t, tasks)
  /\ ev'.room = r => ev'.op \notin {"start", "tick"}
  /\ (ev'.room = r /\ ev'.op \in {"light_changed", "trigger_changed"}) => ev'.scheduled = "none"
PendingTaskFires(r) ==
  /\ ev'.op = "delayed_apply"
  /\ BagIn(ApplyTask(r, ev'.ids), tasks)
  /\ tasks' = tasks (-) SetToBag({ApplyTask(r, ev'.ids)})
  /\ enabled(r)
ServiceReachesStopped(r) ==
  /\ ev'.op \in {"apply_service", "clear_override"}
  /\ lifecycle[r] = "stopped"
  /\ enabled(r)
SleepTick(r) == TickStep(r) /\ enabled(r) /\ ~Overridden(r) /\ sleep_mode[r]
C31_SleepTarget ==
  [][\A r \in Rooms :
       SleepTick(r)
         => /\ current_brightness'[r] = SleepBrightness(r)
            /\ current_color_temp'[r] = SleepColorTemp(r)]_vars

\* C32: once the shared target of a group has been published (brightness > 0), no
\* operation of a member that is not the first of the list (tick, forced update, clearing
\* the override, a change of a sleep number) overwrites it: the shared target stays the one
\* computed by the room that led the group when it was written.
PublishedFollower(r) == NonFirstMember(r) /\ SharedBrightness(r) > 0
C32_LeaderOnlyWrites ==
  [][\A r \in Rooms :
       (ev'.room = r /\ PublishedFollower(r))
         => /\ sync_groups'[sync_group[r]].brightness = SharedBrightness(r)
            /\ sync_groups'[sync_group[r]].color_temp = SharedColorTemp(r)]_vars

\* C33: while a room is disabled (its internal flag off, or its enable entity reporting
\* off) none of its operations changes its current target, its telemetry or the shared
\* target of its group; a forced update or a cleared override of a disabled room
\* publishes nothing.
SharedTargetKept(r) ==
  Grouped(r) => /\ sync_groups'[sync_group[r]].brightness = SharedBrightness(r)
                /\ sync_groups'[sync_group[r]].color_temp = SharedColorTemp(r)
C33_DisabledFrame ==
  [][\A r \in Rooms :
       (ev'.room = r /\ ~enabled(r))
         => /\ current_brightness'[r] = current_brightness[r]
            /\ current_color_temp'[r] = current_color_temp[r]
            /\ telemetry'[r] = telemetry[r]
            /\ SharedTargetKept(r)
            /\ ~ev'.publish]_vars

\* C34: while the override of a room is armed and has not expired, none of the automatic
\* paths (the tick, the debounced apply of a trigger, the debounced apply of a light that
\* turned on) dispatches a command to a light of the room; only a forced update or the
\* clearing of the override sends commands during the window.
AutomaticStep(r) == ev'.room = r /\ ev'.op \in {"start", "tick", "delayed_apply"}
C34_SilentWindow ==
  [][\A r \in Rooms : (Overridden(r) /\ AutomaticStep(r)) => ev'.sent = {}]_vars

\* C35: whenever an apply of a room sends a command, the room's target is not the
\* placeholder 0 / 0 it was constructed with (an engine computation or a copy of a
\* published shared target has written it), so the brightness sent is never computed
\* from the initial 0, also when the room was started disabled.
C35_NoPlaceholderSent ==
  [][\A r \in Rooms :
       (ev'.room = r /\ ev'.sent # {})
         => /\ current_brightness'[r] > 0
            /\ current_color_temp'[r] > 0
            /\ \A c \in ev'.sent : c.brightness # 0]_vars

\* C36: a change the controller caused itself never arms the override: when a light that
\* is on reports exactly the fields of the command last sent to it, its other attributes
\* unchanged, no override task is created, whatever the adaptation toggles are and whether
\* or not the light supports color temperature.
EchoStep(l) ==
  /\ ev'.op = "light_changed" /\ ev'.light = l
  /\ lights[l].state = STATE_ON
  /\ l \in DOMAIN last_applied[RoomOfLight(l)]
  /\ lights'[l] = EchoState(l)
C36_OwnChangeIgnored ==
  [][\A l \in AllLights : EchoStep(l) => ev'.scheduled # "override"]_vars

\* C37: a change of brightness or color temperature observed on a light that stays on
\* never arms the override when the room holds no LastApplied record for the light, or
\* when the room is disabled, however large the change: no override task is created and
\* the window is left as it was.
C37_NoRecordNoArming ==
  [][\A r \in Rooms : \A l \in SeqToSet(Lights(r)) :
       (/\ LightStep(r, l) /\ OnToOnChange(l)
        /\ l \notin DOMAIN last_applied[r] \/ ~enabled(r))
         => /\ ev'.scheduled # "override"
            /\ \A t \in BagToSet(tasks') : t.kind = "override" => BagIn(t, tasks)
            /\ UNCHANGED <<manual_override, manual_override_until>>]_vars

\* C37 witness: the started, enabled room A with detection on has just observed a1, which
\* was on already, report new attributes without a parent context; A holds no record for
\* a1 (nothing was ever sent to it), and no task was created.
C37_Witness ==
  /\ ev.op = "light_changed" /\ ev.room = "A" /\ ev.light = "a1"
  /\ ~ev.parent /\ ev.scheduled = "none"
  /\ lifecycle["A"] = "running" /\ enabled("A") /\ detect_override["A"]
  /\ lights["a1"] = LightOn(56, 464)
  /\ "a1" \notin DOMAIN last_applied["A"]

\* C38 as stated: with a zero sunrise offset and next_rising at most one day ahead, the
\* sunrise reference of a tick is never later than now, so the day progress stored with an
\* elevation of 0 or less is 100; a day progress of 0 is stored with such an elevation only
\* when the sunrise offset is positive or next_rising is more than one day ahead.
RisingWithinDay ==
  sun_state.present /\ sun_state.next_rising # None /\ sun_state.next_rising <= now + DAY
RisingBeyondDay ==
  sun_state.present /\ sun_state.next_rising # None /\ sun_state.next_rising > now + DAY
NightAtZero(r) == EngineTick(r) /\ SunDown(r) /\ telemetry'[r].day_progress = 0
SunriseNotAhead(r) ==
  (EngineTick(r) /\ SunriseOffset(r) = 0 /\ RisingWithinDay)
    => /\ SunData(r)[1] <= now
       /\ SunDown(r) => telemetry'[r].day_progress = 100
FallbackBeforeDawn == ~sun_state.present /\ now < Midnight + 6 * 60
MemberListExact ==
  /\ "" \notin DOMAIN sync_groups
  /\ \A g \in DOMAIN sync_groups :
       LET c == sync_groups[g].controllers
       IN /\ \A i, j \in DOMAIN c : c[i] = c[j] => i = j
          /\ SeqToSet(c) = {r \in Rooms : sync_group[r] = g /\ lifecycle[r] = "running"}
          /\ \A i, j \in DOMAIN c : i < j => joined_at[c[i]] < joined_at[c[j]]
UngroupedApart ==
  \A r \in Rooms :
    (ev'.room = r /\ sync_group[r] = "")
      => /\ sync_groups' = sync_groups
         /\ ~ev'.follow /\ ~ev'.publish
C39_MemberLists == [](MemberListExact) /\ [][UngroupedApart]_vars

\* C39 witness: A and B joined group g in this order and A has been stopped since; room C,
\* configured without a group, has just ticked and computed its own target, and the list
\* holds B alone next to the target B published.
C39_Witness ==
  /\ sync_group["C"] = "" /\ sync_group["A"] = "g" /\ sync_group["B"] = "g"
  /\ lifecycle["A"] = "stopped" /\ lifecycle["B"] = "running" /\ lifecycle["C"] = "running"
  /\ joined_at["A"] = 1 /\ joined_at["B"] = 2
  /\ sync_groups["g"].controllers = <<"B">>
  /\ sync_groups["g"].brightness > 0
  /\ ev.op = "tick" /\ ev.room = "C" /\ ev.engine /\ ~ev.publish

\* C40: the shared target of a group is never reset: only a step that publishes changes
\* it, so it outlives the room that published it and an empty member list; a room that
\* starts or ticks behind another member while the retained brightness is above 0 copies
\* the retained target, also when the member at the head of the list has never published.
TargetRetained ==
  \A g \in DOMAIN sync_groups :
    /\ g \in DOMAIN sync_groups'
    /\ ~ev'.publish => /\ sync_groups'[g].brightness = sync_groups[g].brightness
                       /\ sync_groups'[g].color_temp = sync_groups[g].color_temp
    /\ sync_groups[g].brightness > 0 => sync_groups'[g].brightness > 0
BehindAnother(r) ==
  /\ Grouped(r)
  /\ sync_groups[sync_group[r]].controllers # <<>>
  /\ sync_groups[sync_group[r]].controllers[1] # r
FollowsRetained(r) ==
  (/\ ev'.room = r /\ ev'.op \in {"start", "tick"}
   /\ enabled(r) /\ ~Overridden(r)
   /\ BehindAnother(r) /\ SharedBrightness(r) > 0)
    => /\ ev'.follow
       /\ current_brightness'[r] = SharedBrightness(r)
       /\ current_color_temp'[r] = SharedColorTemp(r)
C40_TargetSurvives ==
  [][TargetRetained /\ \A r \in Rooms : FollowsRetained(r)]_vars

\* C40 witness: A published the shared target and has been stopped; B, disabled since it
\* joined, leads the list without ever having computed a target; C, the last to join, has
\* just followed the value A left behind.
C40_Witness ==
  /\ lifecycle["A"] = "stopped" /\ lifecycle["B"] = "running" /\ lifecycle["C"] = "running"
  /\ joined_at["A"] = 1 /\ joined_at["B"] = 2 /\ joined_at["C"] = 3
  /\ sync_groups["g"].controllers = <<"B", "C">>
  /\ ~enabled("B") /\ current_brightness["B"] = 0
  /\ ev.room = "C" /\ ev.follow
  /\ sync_groups["g"].brightness > 0
  /\ current_brightness["A"] = sync_groups["g"].brightness
  /\ current_brightness["C"] = sync_groups["g"].brightness
  /\ current_color_temp["C"] = sync_groups["g"].color_temp

====
